---- MODULE Spec2Model ----
(***************************************************************************)
(* Model of the AntiCaptcha Go client (src/anticaptcha.go).                *)
(*                                                                         *)
(* A caller makes a Client and an HCaptchaProxyless object and then its    *)
(* calls: the setters and the solve operations Client.SendImage and        *)
(* HCaptchaProxyless.SolveAndReturnSolution, one after the other on the    *)
(* same objects, or a setter from another goroutine while an operation     *)
(* runs.  A solve operation is a single thread of control: createTask,     *)
(* then loop { getTaskResult ; time.Sleep }.  The remote service, the      *)
(* transport failures and the latency of every HTTP exchange are the       *)
(* environment and are chosen nondeterministically.  Time is counted in    *)
(* whole seconds.                                                          *)
(***************************************************************************)
EXTENDS Integers, Sequences, FiniteSets, TLC

VARIABLES
    pc,         \* "idle", "create", "createWait", "poll", "pollWait" (Wait: in HTTPClient.Do),
                \* "sleep", "done" (returned), "panic" (run-time panic)
    kind,       \* "none", "image" (SendImage), "hcaptcha" (SolveAndReturnSolution)
    now,        \* the clock, seconds (read from 0 again when an operation has returned)
    deadline,   \* expiry of ctx (context.WithTimeout)
    taskID,     \* local variable taskID (0 before createTask answered)
    ret,        \* the (string, error) pair returned to the caller
    h,          \* the HCaptchaProxyless object
    createResp, \* the decoded createTask response (NoCreateResp when none was decoded)
    lastResp,   \* the getTaskResult response decoded in this turn of the loop (or NoPollResp)
    lastFail,   \* the outcome makeRequest observed in this step ("none": none yet)
    nCreate,    \* number of createTask requests handed to HTTPClient.Do
    nPoll,      \* number of getTaskResult requests handed to HTTPClient.Do
    nSleep,     \* number of time.Sleep calls made
    nReady,     \* number of decoded getTaskResult responses whose status is "ready"
    sleptFrom,  \* the clock value at which the last time.Sleep began (-1 when none)
    client,     \* the Client the operation runs on
    createReq,  \* the body of the createTask request (NoRequest when none was built)
    pollReq,    \* the body of the last getTaskResult request (NoRequest when none)
    stepLog,    \* the log entries written so far by the createTask / getTaskResult call
                \* in progress or just made
    lastClose,  \* the outcome of resp.Body.Close() in that exchange ("none": no response)
    calls,      \* the calls the caller has still to make (the head is the one in progress)
    ops,        \* the operations running concurrently on the one Client (ConcSpec)
    remote,     \* the tasks the remote service has created, by task id (ConcSpec)
    pair,       \* a SendImage and a SolveAndReturnSolution fed the same responses (PairSpec)
    mreq        \* one call of makeRequest, exchange by exchange (RequestSpec)

reqVars == <<client, createReq, pollReq>>

(* The state of the specifications of several operations. *)
otherVars == <<ops, remote, pair, mreq>>

vars == <<pc, kind, now, deadline, taskID, ret, h, createResp, lastResp, lastFail,
          nCreate, nPoll, nSleep, nReady, sleptFrom, reqVars, stepLog, lastClose, calls,
          otherVars>>

-----------------------------------------------------------------------------
(* Program constants; the durations in seconds. *)
apiBaseURL == "https://api.anti-captcha.com"
checkInterval == 2
defaultTimeout == 60

(* Bound of the model: the longest latency of one HTTP exchange that is    *)
(* answered; an exchange that is never answered is the outcome "hang".     *)
MaxLatency == 1

-----------------------------------------------------------------------------
(* JSON values as json.Decoder stores them in a map[string]interface{}:    *)
(* a key that is absent, null, a float64, a string.                        *)
Absent == [t |-> "absent", n |-> 0, s |-> ""]
Null == [t |-> "null", n |-> 0, s |-> ""]
Num(n) == [t |-> "num", n |-> n, s |-> ""]
Str(s) == [t |-> "str", n |-> 0, s |-> s]
Bool(b) == [t |-> "bool", n |-> IF b THEN 1 ELSE 0, s |-> ""]
(* A Go value json.Marshal has no encoding for (a channel). *)
Chan == [t |-> "chan", n |-> 0, s |-> ""]

(* v.(float64) and v.(string) with the ok result. *)
IsFloat(v) == v.t = "num"
IsString(v) == v.t = "str"

(* Go error values: the message, built up by fmt.Errorf's prefixes, and    *)
(* the innermost error of the %w chain.                                    *)
NilErr == [msg |-> <<>>, leaf |-> "nil"]
ErrorsNew(m) == [msg |-> <<m>>, leaf |-> "errors.New"]
Errorf(prefix, e) == [msg |-> <<prefix>> \o e.msg, leaf |-> e.leaf]
(* errors.Unwrap: the error that e wraps. *)
Unwrap(e) == [msg |-> Tail(e.msg), leaf |-> e.leaf]

-----------------------------------------------------------------------------
(* What the remote service sent back, as decoded into the generic map.     *)

(* The "solution" member of a getTaskResult response: absent, a JSON       *)
(* string (not an object), or an object with the members the two           *)
(* workflows read.                                                         *)
NoSolution == [t |-> "absent", text |-> Absent, gRecaptchaResponse |-> Absent,
               userAgent |-> Absent, respKey |-> Absent]
StringSolution == [NoSolution EXCEPT !.t = "str"]
ImageSolutions ==
    [t : {"obj"}, text : {Absent, Num(1), Str(""), Str("AB12")},
     gRecaptchaResponse : {Absent}, userAgent : {Absent}, respKey : {Absent}]
HCaptchaSolutions ==
    [t : {"obj"}, text : {Absent},
     gRecaptchaResponse : {Str("tok")},
     userAgent : {Absent, Num(1), Str("UA")},
     respKey : {Absent, Null, Str("K")}]
    \cup {[NoSolution EXCEPT !.t = "obj"]}

NoCreateResp == [errorId |-> Absent, errorDescription |-> Absent, taskId |-> Absent,
                 decoded |-> FALSE]
(* createTask responses: {errorId, errorDescription?, taskId}. *)
CreateResponses ==
    [errorId : {Num(1), Str("1"), Null},
     errorDescription : {Absent, Num(2), Str("ERROR_KEY_DOES_NOT_EXIST")},
     taskId : {Absent, Num(7)},
     decoded : {TRUE}]
    \cup
    [errorId : {Absent, Num(0)},
     errorDescription : {Absent},
     taskId : {Absent, Null, Str("7")},
     decoded : {TRUE}]
    \cup
    {[errorId |-> Absent, errorDescription |-> Absent, taskId |-> Num(7), decoded |-> TRUE],
     [errorId |-> Num(0), errorDescription |-> Absent, taskId |-> Num(8), decoded |-> TRUE]}

NoPollResp == [status |-> Absent, errorId |-> Absent, solution |-> NoSolution,
               decoded |-> FALSE]
(* getTaskResult responses: {errorId, status, solution?}. *)
NotReadyResponses ==
    [status : {Absent, Num(1), Str("processing")},
     errorId : {Num(0)},
     solution : {NoSolution},
     decoded : {TRUE}]
    \cup
    [status : {Str("processing")},
     errorId : {Num(1)},
     solution : {NoSolution},
     decoded : {TRUE}]
ReadyResponses(k) ==
    [status : {Str("ready")},
     errorId : {Num(0)},
     solution : {NoSolution, StringSolution}
                \cup (IF k = "image" THEN ImageSolutions ELSE HCaptchaSolutions),
     decoded : {TRUE}]
PollResponses(k) == NotReadyResponses \cup ReadyResponses(k)

(* How one HTTP exchange can go on the remote side: answered with a 2xx    *)
(* and a JSON body, a network error, a non-2xx status, a body that is not  *)
(* JSON, no answer at all, or headers followed by a body that never ends.  *)
RemoteOutcomes == {"ok", "network", "status", "decode", "hang", "bodyhang"}
(* The outcomes in which the remote side sends the headers of a response. *)
AnsweredOutcomes == {"ok", "status", "decode", "bodyhang"}

-----------------------------------------------------------------------------
(* Exchange with a request that is sent whether or not ctx has expired:    *)
(* the expiry only ends an exchange that is waiting for the remote side.   *)
ExchangeSentAfterExpiry(t, dl, d, x) ==
    IF x = "hang" \/ (t < dl /\ t + d >= dl)
    THEN [x |-> "deadline", at |-> IF t >= dl THEN t ELSE dl]
    ELSE IF x = "bodyhang" THEN [x |-> "deadlinebody", at |-> IF t >= dl THEN t ELSE dl]
    ELSE [x |-> x, at |-> t + d]

(* Client.makeRequest: one exchange begun at the clock value t under a ctx *)
(* that expires at dl, which the remote side would answer with outcome x   *)
(* after d seconds.  The result is the outcome makeRequest observes and    *)
(* the clock value at which it returns.  An expired ctx fails              *)
(* HTTPClient.Do at once; a ctx that expires during the exchange aborts    *)
(* it at the expiry (in Do, or in the body's Decode).                      *)
Exchange(t, dl, d, x) ==
    IF t >= dl THEN [x |-> "deadline", at |-> t]
    ELSE IF x = "hang" \/ t + d >= dl THEN [x |-> "deadline", at |-> dl]
    ELSE IF x = "bodyhang" THEN [x |-> "deadlinebody", at |-> dl]
    ELSE [x |-> x, at |-> t + d]

(* makeRequest with its causes formatted by %v instead of %w: the message  *)
(* is the same and the chain to the cause is cut.                          *)
makeRequestUnwrapped(x) ==
    CASE x = "ok" -> NilErr
      [] x = "marshal" ->
            [msg |-> <<"failed to marshal request body: ",
                       "json: unsupported type: chan int">>,
             leaf |-> "fmt.Errorf"]
      [] x \in {"network", "deadline", "redirects"} ->
            [msg |-> <<"request failed: ",
                       CASE x = "network" -> "connection refused"
                         [] x = "deadline" -> "context deadline exceeded"
                         [] x = "redirects" -> "stopped after 10 redirects">>,
             leaf |-> "fmt.Errorf"]
      [] x = "status" ->
            [msg |-> <<"non-2xx status code: 500">>, leaf |-> "status"]
      [] x \in {"decode", "deadlinebody"} ->
            [msg |-> <<"failed to decode response: ",
                       IF x = "decode" THEN "invalid character"
                       ELSE "context deadline exceeded">>,
             leaf |-> "fmt.Errorf"]

(* The error makeRequest returns for the outcome it observed. *)
makeRequest(x) ==
    CASE x = "ok" -> NilErr
      [] x = "marshal" ->
            Errorf("failed to marshal request body: ",
                   [msg |-> <<"json: unsupported type: chan int">>,
                    leaf |-> "json.UnsupportedTypeError"])
      [] x = "network" ->
            Errorf("request failed: ", [msg |-> <<"connection refused">>, leaf |-> "net"])
      [] x = "deadline" ->
            Errorf("request failed: ",
                   [msg |-> <<"context deadline exceeded">>,
                    leaf |-> "context.DeadlineExceeded"])
      [] x = "redirects" ->
            Errorf("request failed: ",
                   [msg |-> <<"stopped after 10 redirects">>, leaf |-> "net/http"])
      [] x = "status" ->
            [msg |-> <<"non-2xx status code: 500">>, leaf |-> "status"]
      [] x = "decode" ->
            Errorf("failed to decode response: ",
                   [msg |-> <<"invalid character">>, leaf |-> "json"])
      [] x = "deadlinebody" ->
            Errorf("failed to decode response: ",
                   [msg |-> <<"context deadline exceeded">>,
                    leaf |-> "context.DeadlineExceeded"])

(* The number of requests one call of makeRequest hands to HTTPClient.Do:  *)
(* the one of line 75, or none when it has ended with the marshalling      *)
(* failure x.                                                              *)
HTTPRequests(x) == IF x = "marshal" THEN 0 ELSE 1

(* The fields of HCaptchaProxyless that SolveAndReturnSolution reads into  *)
(* the request body.                                                       *)
InputFields ==
    {"WebsiteURL", "WebsiteKey", "IsInvisible", "IsEnterprise", "EnterprisePayload",
     "SoftID"}

(* The request bodies (anticaptcha.go 106-112, 262-273, 143-146): the      *)
(* endpoint they go to and the values marshalled into them.  A map such    *)
(* as EnterprisePayload is the sequence of its members [k, v].             *)
NoRequest == [endpoint |-> "", clientKey |-> "", type |-> "", taskId |-> 0,
              image |-> "", task |-> <<>>]
createTaskImageBody(c, img) ==
    [endpoint |-> "/createTask", clientKey |-> c.APIKey, type |-> "ImageToTextTask",
     taskId |-> 0, image |-> img, task |-> <<>>]
SolveBody(c, hh) ==
    [endpoint |-> "/createTask", clientKey |-> c.APIKey,
     type |-> "HCaptchaTaskProxyless", taskId |-> 0, image |-> "",
     task |-> [f \in InputFields |-> hh[f]]]
(* getTaskResultBody sending the zero value instead of its taskID argument. *)
getTaskResultBodyNoTask(c, id) ==
    [endpoint |-> "/getTaskResult", clientKey |-> c.APIKey, type |-> "", taskId |-> 0,
     image |-> "", task |-> <<>>]
getTaskResultBody(c, id) ==
    [endpoint |-> "/getTaskResult", clientKey |-> c.APIKey, type |-> "", taskId |-> id,
     image |-> "", task |-> <<>>]

(* json.Marshal (line 57).  It fails on a value it has no encoding for;    *)
(* of the values of a body only a member of EnterprisePayload can be one.  *)
Marshalable(body) ==
    body.type = "HCaptchaTaskProxyless" =>
        \A i \in DOMAIN body.task.EnterprisePayload :
            body.task.EnterprisePayload[i].v.t # "chan"

(* The bytes json.Marshal writes beyond one per character of the string s: *)
(* the characters <, > and & are written as \u003c, \u003e and \u0026.    *)
(* The strings of this model that hold such a character are listed.        *)
EscapeExtra(s) ==
    CASE s = "a<b" -> 5
      [] OTHER -> 0

(* The number of bytes of a non-negative integer in decimal. *)
RECURSIVE Digits(_)
Digits(n) == IF n < 10 THEN 1 ELSE 1 + Digits(n \div 10)

(* The number of bytes json.Marshal writes for the value v. *)
JsonLen(v) ==
    CASE v.t = "str" -> Len(v.s) + EscapeExtra(v.s) + Len("\"\"")
      [] v.t = "num" -> Digits(v.n)
      [] v.t = "bool" -> IF v.n = 1 THEN Len("true") ELSE Len("false")
      [] v.t = "null" -> Len("null")

(* The bytes of the members of a map, each with its key, its colon and a   *)
(* comma after it.                                                         *)
RECURSIVE JsonMembersLen(_)
JsonMembersLen(m) ==
    IF m = <<>> THEN 0
    ELSE JsonLen(Str(Head(m).k)) + Len(":") + JsonLen(Head(m).v) + Len(",")
         + JsonMembersLen(Tail(m))

JsonMapLen(m) ==
    IF m = <<>> THEN Len("{}") ELSE Len("{") + JsonMembersLen(m) - Len(",") + Len("}")

(* NewClient(apiKey, logger). *)
NewClient(apiKey, logger) ==
    [APIKey |-> apiKey,
     HTTPClient |-> [Timeout |-> defaultTimeout],
     Logger |-> IF logger = "nil" THEN "defaultLogger" ELSE logger]

(* The outcome of a step of a solve operation. *)
Continue(id) == [k |-> "continue", val |-> "", err |-> NilErr, taskID |-> id]
Return(val, err) == [k |-> "return", val |-> val, err |-> err, taskID |-> 0]
Panic == [k |-> "panic", val |-> "", err |-> NilErr, taskID |-> 0]

(* ParseCreate without the check of errorId. *)
ParseCreateNoApiCheck(r) ==
    IF ~IsFloat(r.taskId)
    THEN Return("", ErrorsNew("failed to retrieve taskId from response"))
    ELSE Continue(r.taskId.n)

(* ParseCreate with the ok of the taskId assertion dropped: a taskId that  *)
(* is no float64 becomes the zero value.                                   *)
ParseCreateUncheckedTaskId(r) ==
    IF r.errorId.t # "absent" /\ ~IsFloat(r.errorId) THEN Panic
    ELSE IF r.errorId.t # "absent" /\ r.errorId.n # 0 THEN
        IF IsString(r.errorDescription)
        THEN Return("", ErrorsNew(r.errorDescription.s))
        ELSE Panic
    ELSE Continue(IF IsFloat(r.taskId) THEN r.taskId.n ELSE 0)

(* The checks both workflows make on a decoded createTask response         *)
(* (anticaptcha.go 123-138 and 284-295).  A type assertion without ok on   *)
(* a value of another type is a run-time panic.                            *)
ParseCreate(r) ==
    IF r.errorId.t # "absent" /\ ~IsFloat(r.errorId) THEN Panic
    ELSE IF r.errorId.t # "absent" /\ r.errorId.n # 0 THEN
        IF IsString(r.errorDescription)
        THEN Return("", ErrorsNew(r.errorDescription.s))
        ELSE Panic
    ELSE IF ~IsFloat(r.taskId)
        THEN Return("", ErrorsNew("failed to retrieve taskId from response"))
        ELSE Continue(r.taskId.n)

(* Client.createTaskImage on the observed outcome x and decoded body r. *)
createTaskImage(x, r) ==
    IF x # "ok" THEN Return("", Errorf("failed to create task: ", makeRequest(x)))
    ELSE ParseCreate(r)

(* Client.getTaskResult: the error it returns. *)
getTaskResult(x) ==
    IF x # "ok" THEN Errorf("failed to get task result: ", makeRequest(x))
    ELSE NilErr

(* status, ok := response["status"].(string); ok && status == "ready" *)
IsReady(r) == IsString(r.status) /\ r.status.s = "ready"

(* DecodeImage reading the member gRecaptchaResponse instead of text. *)
DecodeImageWrongKey(r) ==
    IF r.solution.t # "obj"
    THEN Return("", ErrorsNew("invalid solution format in response"))
    ELSE IF ~IsString(r.solution.gRecaptchaResponse)
        THEN Return("", ErrorsNew("text not found in solution"))
        ELSE Return(r.solution.gRecaptchaResponse.s, NilErr)

(* DecodeImage with the ok of the text assertion dropped. *)
DecodeImageUnchecked(r) ==
    IF r.solution.t # "obj"
    THEN Return("", ErrorsNew("invalid solution format in response"))
    ELSE Return(IF IsString(r.solution.text) THEN r.solution.text.s ELSE "", NilErr)

(* SendImage, lines 180-196: the decoding of a "ready" response. *)
DecodeImage(r) ==
    IF r.solution.t # "obj"
    THEN Return("", ErrorsNew("invalid solution format in response"))
    ELSE IF ~IsString(r.solution.text)
        THEN Return("", ErrorsNew("text not found in solution"))
        ELSE Return(r.solution.text.s, NilErr)

(* SendImagePoll ending the operation on a response that carries a        *)
(* non-zero errorId.                                                       *)
SendImagePollChecksErrorId(x, r) ==
    IF x # "ok"
    THEN Return("", Errorf("failed to get task result: ", getTaskResult(x)))
    ELSE IF IsFloat(r.errorId) /\ r.errorId.n # 0
    THEN Return("", ErrorsNew("task failed"))
    ELSE IF IsReady(r) THEN DecodeImage(r)
    ELSE Continue(0)

(* SendImagePoll logging a failed poll and going on with the loop. *)
SendImagePollContinue(x, r) ==
    IF x # "ok" THEN Continue(0)
    ELSE IF IsReady(r) THEN DecodeImage(r)
    ELSE Continue(0)

(* SendImage, lines 174-199: one turn of the loop on the observed outcome  *)
(* x and the decoded body r.                                               *)
SendImagePoll(x, r) ==
    IF x # "ok"
    THEN Return("", Errorf("failed to get task result: ", getTaskResult(x)))
    ELSE IF IsReady(r) THEN DecodeImage(r)
    ELSE Continue(0)

(* DecodeHCaptcha with the two assigned fields exchanged. *)
DecodeHCaptchaSwapped(r, hh) ==
    IF r.solution.t # "obj"
    THEN [out |-> Return("", ErrorsNew("invalid solution format in response")), h |-> hh]
    ELSE IF ~IsString(r.solution.gRecaptchaResponse)
    THEN [out |-> Return("", ErrorsNew("gRecaptchaResponse not found in solution")),
          h |-> hh]
    ELSE IF ~IsString(r.solution.userAgent)
    THEN [out |-> Panic, h |-> hh]
    ELSE IF ~IsString(r.solution.respKey)
    THEN [out |-> Panic, h |-> [hh EXCEPT !.RespKey = r.solution.userAgent.s]]
    ELSE [out |-> Return(r.solution.gRecaptchaResponse.s, NilErr),
          h |-> [hh EXCEPT !.RespKey = r.solution.userAgent.s,
                           !.UserAgent = r.solution.respKey.s]]

(* SolveAndReturnSolution, lines 305-323: the decoding of a "ready"        *)
(* response, with the HCaptchaProxyless object hh it is called on.  The    *)
(* result is the outcome and the object as the call leaves it.  UserAgent  *)
(* is assigned before respKey is asserted to be a string.                  *)
DecodeHCaptcha(r, hh) ==
    IF r.solution.t # "obj"
    THEN [out |-> Return("", ErrorsNew("invalid solution format in response")), h |-> hh]
    ELSE IF ~IsString(r.solution.gRecaptchaResponse)
    THEN [out |-> Return("", ErrorsNew("gRecaptchaResponse not found in solution")),
          h |-> hh]
    ELSE IF ~IsString(r.solution.userAgent)
    THEN [out |-> Panic, h |-> hh]
    ELSE IF ~IsString(r.solution.respKey)
    THEN [out |-> Panic, h |-> [hh EXCEPT !.UserAgent = r.solution.userAgent.s]]
    ELSE [out |-> Return(r.solution.gRecaptchaResponse.s, NilErr),
          h |-> [hh EXCEPT !.UserAgent = r.solution.userAgent.s,
                           !.RespKey = r.solution.respKey.s]]

(* SolveAndReturnSolution, lines 299-326: one turn of the loop. *)
SolvePoll(x, r, hh) ==
    IF x # "ok"
    THEN [out |-> Return("", Errorf("failed to get task result: ", getTaskResult(x))),
          h |-> hh]
    ELSE IF IsReady(r) THEN DecodeHCaptcha(r, hh)
    ELSE [out |-> Continue(0), h |-> hh]

(* SolveAndReturnSolution, lines 277-295: the createTask exchange. *)
SolveCreate(x, r) ==
    IF x # "ok" THEN Return("", Errorf("failed to create task: ", makeRequest(x)))
    ELSE ParseCreate(r)

(* SendImage, lines 166-170: the createTask exchange. *)
SendImageCreate(x, r) ==
    LET c == createTaskImage(x, r)
    IN  IF c.k = "return" THEN Return("", Errorf("failed to send image: ", c.err))
        ELSE c

-----------------------------------------------------------------------------
(* What the operations write through Client.Logger.  An entry is the       *)
(* format (or the Println text) and the values formatted into it: a        *)
(* string, a number, an error, a decoded response.                         *)
Entry(fmt, str, num, err, resp) ==
    [fmt |-> fmt, str |-> str, num |-> num, err |-> err, resp |-> resp]
Line(fmt) == Entry(fmt, "", 0, NilErr, <<>>)
LineS(fmt, s) == Entry(fmt, s, 0, NilErr, <<>>)
LineN(fmt, n) == Entry(fmt, "", n, NilErr, <<>>)
LineE(fmt, e) == Entry(fmt, "", 0, e, <<>>)
LineR(fmt, r) == Entry(fmt, "", 0, NilErr, <<r>>)

(* len(string(b)), line 72: the bytes of the body as json.Marshal writes   *)
(* it, the members of every map in the order of their keys.                *)
BodySize(body) ==
    CASE body.endpoint = "/getTaskResult" ->
            Len("{\"clientKey\":") + JsonLen(Str(body.clientKey))
            + Len(",\"taskId\":") + Digits(body.taskId) + Len("}")
      [] body.type = "ImageToTextTask" ->
            Len("{\"clientKey\":") + JsonLen(Str(body.clientKey))
            + Len(",\"task\":{\"body\":") + JsonLen(Str(body.image))
            + Len(",\"type\":\"ImageToTextTask\"}}")
      [] body.type = "HCaptchaTaskProxyless" ->
            Len("{\"clientKey\":") + JsonLen(Str(body.clientKey))
            + Len(",\"softId\":") + Digits(body.task.SoftID)
            + Len(",\"task\":{\"enterprisePayload\":")
            + JsonMapLen(body.task.EnterprisePayload)
            + Len(",\"isEnterprise\":") + JsonLen(Bool(body.task.IsEnterprise))
            + Len(",\"isInvisible\":") + JsonLen(Bool(body.task.IsInvisible))
            + Len(",\"type\":\"HCaptchaTaskProxyless\",\"websiteKey\":")
            + JsonLen(Str(body.task.WebsiteKey))
            + Len(",\"websiteURL\":") + JsonLen(Str(body.task.WebsiteURL))
            + Len("}}")

(* The outcomes of an exchange in which makeRequest holds a response and  *)
(* so closes its body when it returns (lines 80-84).                       *)
ResponseOutcomes == {"ok", "status", "decode", "deadlinebody"}
CloseOutcomes == {"nil", "err"}
CloseError == [msg |-> <<"close failed">>, leaf |-> "io"]

(* What makeRequest logs after the entry of line 72: the entry of the      *)
(* outcome x, then, from the deferred function, the entry of a failed      *)
(* resp.Body.Close() (cl = "err").                                         *)
makeRequestOutcomeLog(x, cl, r) ==
    (CASE x \in {"network", "deadline", "redirects"} ->
            <<LineE("Request failed: %v", Unwrap(makeRequest(x)))>>
       [] x = "status" -> <<LineN("Received non-2xx status code: %d", 500)>>
       [] x \in {"decode", "deadlinebody"} ->
            <<LineE("Error decoding response: %v", Unwrap(makeRequest(x)))>>
       [] x = "ok" -> <<LineR("Received response: %v", r)>>)
    \o (IF x \in ResponseOutcomes /\ cl = "err"
        THEN <<LineE("Error closing response body: %v", CloseError)>>
        ELSE <<>>)

(* makeRequestSentLog writing the body itself instead of its size. *)
makeRequestSentLogBody(body) ==
    <<Entry("Sending request to %s with body: %v", body.clientKey, 0, NilErr, <<>>)>>

(* Client.makeRequest, line 72: the entry written before the request is    *)
(* handed to HTTPClient.Do, with the URL and the size of the body.         *)
makeRequestSentLog(body) ==
    <<Entry("Sending request to %s with body: %v", apiBaseURL \o body.endpoint,
            BodySize(body), NilErr, <<>>)>>

(* Client.makeRequest, lines 57-99: what it logs for the body it is given, *)
(* the outcome x it observes, the outcome cl of closing the response body  *)
(* and the response r it decodes.  The errors logged at 59, 77 and 94 are  *)
(* the causes that makeRequest then wraps.                                 *)
makeRequestLog(body, x, cl, r) ==
    IF x = "marshal"
    THEN <<LineE("Error marshaling request body: %v", Unwrap(makeRequest(x)))>>
    ELSE makeRequestSentLog(body) \o makeRequestOutcomeLog(x, cl, r)

(* Lines 119-136 and 280-295: what is logged on the createTask outcome.    *)
(* A panic in the arguments of the Printf at 125 / 285 leaves no entry.    *)
ParseCreateLog(x, r) ==
    IF x # "ok" THEN <<LineE("Failed to create task: %v", makeRequest(x))>>
    ELSE LET p == ParseCreate(r)
         IN  CASE p.k = "panic" -> <<>>
               [] p.k = "continue" ->
                     <<LineN("Task created successfully with ID: %f", p.taskID)>>
               [] p.k = "return" /\ r.errorId.t # "absent" /\ r.errorId.n # 0 ->
                     <<LineS("API error creating task: %s", r.errorDescription.s)>>
               [] OTHER -> <<Line("Failed to retrieve taskId from response")>>

(* What is logged up to the wait in HTTPClient.Do: by createTaskImage      *)
(* (114, 72), by SolveAndReturnSolution (275, 72), by getTaskResult (148,  *)
(* 72).                                                                    *)
createTaskImageSentLog(c, img) ==
    <<Line("Creating task for image captcha...")>>
    \o makeRequestSentLog(createTaskImageBody(c, img))
SolveSentLog(c, hh) ==
    <<Line("Creating HCaptcha proxyless task...")>>
    \o makeRequestSentLog(SolveBody(c, hh))
getTaskResultSentLog(c, id) ==
    <<LineN("Checking result for task ID: %f", id)>>
    \o makeRequestSentLog(getTaskResultBody(c, id))

(* Client.createTaskImage, lines 114-136. *)
createTaskImageLog(c, img, x, cl, r) ==
    <<Line("Creating task for image captcha...")>>
    \o makeRequestLog(createTaskImageBody(c, img), x, cl, r)
    \o ParseCreateLog(x, r)

(* SendImage, lines 166-170. *)
SendImageCreateLog(c, img, x, cl, r) ==
    createTaskImageLog(c, img, x, cl, r)
    \o (IF createTaskImage(x, r).k = "return"
        THEN <<LineE("Error sending image: %v", createTaskImage(x, r).err)>>
        ELSE <<>>)

(* SolveAndReturnSolution, lines 275-295. *)
SolveCreateLog(c, hh, x, cl, r) ==
    <<Line("Creating HCaptcha proxyless task...")>>
    \o makeRequestLog(SolveBody(c, hh), x, cl, r)
    \o ParseCreateLog(x, r)

(* Client.getTaskResult, lines 148-155. *)
getTaskResultLog(c, id, x, cl, r) ==
    <<LineN("Checking result for task ID: %f", id)>>
    \o makeRequestLog(getTaskResultBody(c, id), x, cl, r)
    \o (IF x # "ok" THEN <<LineE("Failed to get task result: %v", makeRequest(x))>>
        ELSE <<>>)

(* SendImagePollLog without the entry for a solution that has no text. *)
SendImagePollLogSilentText(c, id, x, cl, r) ==
    getTaskResultLog(c, id, x, cl, r)
    \o (IF x # "ok" THEN <<LineE("Error getting task result: %v", getTaskResult(x))>>
        ELSE IF ~IsReady(r) THEN <<LineN("Task ID %f is still processing...", id)>>
        ELSE <<LineN("Task ID %f is ready with solution.", id)>>
             \o (IF r.solution.t # "obj"
                 THEN <<Line("Invalid solution format in response")>>
                 ELSE IF ~IsString(r.solution.text) THEN <<>>
                 ELSE <<LineS("Captcha solved successfully: %s", r.solution.text.s)>>))

(* SendImage, lines 174-198: one turn of the loop. *)
SendImagePollLog(c, id, x, cl, r) ==
    getTaskResultLog(c, id, x, cl, r)
    \o (IF x # "ok" THEN <<LineE("Error getting task result: %v", getTaskResult(x))>>
        ELSE IF ~IsReady(r) THEN <<LineN("Task ID %f is still processing...", id)>>
        ELSE <<LineN("Task ID %f is ready with solution.", id)>>
             \o (IF r.solution.t # "obj"
                 THEN <<Line("Invalid solution format in response")>>
                 ELSE IF ~IsString(r.solution.text)
                 THEN <<Line("Text not found in solution")>>
                 ELSE <<LineS("Captcha solved successfully: %s", r.solution.text.s)>>))

(* SolveAndReturnSolution, lines 299-325: one turn of the loop.  The       *)
(* panics at 319 and 320 come before the entry of 321.                     *)
SolvePollLog(c, id, x, cl, r) ==
    getTaskResultLog(c, id, x, cl, r)
    \o (IF x # "ok" THEN <<LineE("Error getting task result: %v", getTaskResult(x))>>
        ELSE IF ~IsReady(r) THEN <<LineN("Task ID %f is still processing...", id)>>
        ELSE <<LineN("Task ID %f is ready with solution.", id)>>
             \o (IF r.solution.t # "obj"
                 THEN <<Line("Invalid solution format in response")>>
                 ELSE IF ~IsString(r.solution.gRecaptchaResponse)
                 THEN <<Line("gRecaptchaResponse not found in solution")>>
                 ELSE IF ~IsString(r.solution.userAgent) \/ ~IsString(r.solution.respKey)
                 THEN <<>>
                 ELSE <<LineS("HCaptcha solved successfully: %s",
                              r.solution.gRecaptchaResponse.s)>>))

-----------------------------------------------------------------------------
NoRet == [val |-> "", err |-> NilErr]

(* NewHCaptchaProxyless(client): the object with the zero values of its    *)
(* fields and an empty EnterprisePayload (the Client is the variable       *)
(* client).                                                                *)
NewHCaptchaProxyless ==
    [WebsiteURL |-> "", WebsiteKey |-> "", IsInvisible |-> FALSE, IsEnterprise |-> FALSE,
     EnterprisePayload |-> <<>>, SoftID |-> 0, UserAgent |-> "", RespKey |-> ""]

(* The two fields SolveAndReturnSolution assigns, as NewHCaptchaProxyless  *)
(* leaves them.                                                            *)
NoSolutionFields == [UserAgent |-> "", RespKey |-> ""]

(* A call the caller makes: the function, its scalar argument and, for     *)
(* SetEnterprisePayload, its map argument.  The caller makes its calls one *)
(* after the other, except a call marked go, which it makes from another   *)
(* goroutine and so without waiting for the call before it to return.      *)
Call(f, v, m) == [f |-> f, v |-> v, m |-> m, go |-> FALSE]
Go(call) == [call EXCEPT !.go = TRUE]

(* Arguments of SetEnterprisePayload: the map of the README, and a map     *)
(* with a member json.Marshal cannot encode.                               *)
ReadmePayload ==
    <<[k |-> "rqdata", v |-> Str("rq data value from target website")],
      [k |-> "sentry", v |-> Bool(TRUE)]>>
ChanPayload == <<[k |-> "ch", v |-> Chan]>>

(* The six setter calls of the README's example (part_000, 84-92). *)
ReadmeSetters ==
    <<Call("SetWebsiteURL", Str("https://website.com"), <<>>),
      Call("SetWebsiteKey", Str("SITE_KEY"), <<>>),
      Call("SetIsInvisible", Bool(TRUE), <<>>),
      Call("SetIsEnterprise", Bool(TRUE), <<>>),
      Call("SetEnterprisePayload", Null, ReadmePayload),
      Call("SetSoftID", Num(0), <<>>)>>

(* The callers: the arguments of NewClient and the calls made after        *)
(* NewClient and NewHCaptchaProxyless, in their order.                     *)
ClientArgs ==
    {<<"abc", "nil">>, <<"a<b", "customLogger">>, <<"your_api_key_here", "nil">>}
Callers ==
    {[client |-> <<"a<b", "customLogger">>,
      calls |-> <<Call("SendImage", Str("iVBORw0KGgo="), <<>>)>>],
     [client |-> <<"abc", "nil">>,
      calls |-> <<Call("SolveAndReturnSolution", Null, <<>>),
                  Go(Call("SetIsInvisible", Bool(TRUE), <<>>))>>],
     [client |-> <<"your_api_key_here", "nil">>,
      calls |-> ReadmeSetters \o <<Call("SolveAndReturnSolution", Null, <<>>)>>],
     [client |-> <<"abc", "nil">>,
      calls |-> <<Call("SetSoftID", Num(12), <<>>),
                  Call("SetEnterprisePayload", Null, ChanPayload),
                  Call("SolveAndReturnSolution", Null, <<>>),
                  Call("SetEnterprisePayload", Null, ReadmePayload),
                  Call("SolveAndReturnSolution", Null, <<>>)>>]}

(* How many operations run concurrently on the one Client, and how many   *)
(* getTaskResult requests each makes at most.                              *)
NumOps == 2
MaxPolls == 2
Ops == 1..NumOps

(* An operation that has not been called: its kind, its position, its      *)
(* local taskID, the (string, error) it returned, the fields of the        *)
(* HCaptchaProxyless it assigns, and what the remote service saw of it.    *)
NoOp == [kind |-> "none", pc |-> "idle", taskID |-> 0, ret |-> NoRet,
         h |-> NoSolutionFields,
         created |-> 0, pollIds |-> {}, nPoll |-> 0,
         wire |-> [x |-> "none", cr |-> NoCreateResp, pr |-> NoPollResp]]

(* One workflow of the pair: its position, its local taskID, what it       *)
(* returned and the endpoint calls and sleeps it made.  The pair: the two  *)
(* workflows, the fields of the HCaptchaProxyless that are assigned, the   *)
(* number of getTaskResult exchanges, and the outcome and the responses    *)
(* they were fed last.                                                     *)
NoFlow == [pc |-> "create", taskID |-> 0, ret |-> NoRet, calls |-> <<>>]
NoPair == [image |-> NoFlow, hcaptcha |-> NoFlow,
           h |-> NoSolutionFields, n |-> 0,
           x |-> "none", createResp |-> NoCreateResp, pollResp |-> NoPollResp]

(* A call of makeRequest that has not been made: its position, the body   *)
(* it is called with, the clock then (t0) and now (t), the expiry of its   *)
(* ctx, the build of net/http it runs on, the calls of HTTPClient.Do it    *)
(* has made, the HTTP exchanges begun in them, of which the redirects      *)
(* followed and the requests sent again by the transport, the method of    *)
(* the request to send next and whether it carries the body, the outcome   *)
(* observed, the error returned and the entries logged.                    *)
NoReq == [pc |-> "idle", body |-> NoRequest, t0 |-> 0, t |-> 0, dl |-> 0,
          build |-> "", nDo |-> 0,
          exchanges |-> 0, redirects |-> 0, resends |-> 0,
          method |-> "", sendsBody |-> FALSE,
          x |-> "none", err |-> NilErr, log |-> <<>>]

(* NewClient(a[1], a[2]) and NewHCaptchaProxyless have run; the caller is  *)
(* about to make the calls cs; no operation is in flight.                  *)
Constructed(a, cs) ==
    /\ pc = "idle"
    /\ kind = "none"
    /\ now = 0
    /\ deadline = 0
    /\ taskID = 0
    /\ ret = NoRet
    /\ h = NewHCaptchaProxyless
    /\ createResp = NoCreateResp
    /\ lastResp = NoPollResp
    /\ lastFail = "none"
    /\ lastClose = "none"
    /\ nCreate = 0
    /\ nPoll = 0
    /\ nSleep = 0
    /\ nReady = 0
    /\ sleptFrom = -1
    /\ client = NewClient(a[1], a[2])
    /\ calls = cs
    /\ createReq = NoRequest
    /\ pollReq = NoRequest
    /\ stepLog = <<>>
    /\ ops = [i \in Ops |-> NoOp]
    /\ remote = <<>>
    /\ pair = NoPair
    /\ mreq = NoReq

Init == \E c \in Callers : Constructed(c.client, c.calls)

(* The position in calls of the call the caller makes next: the first     *)
(* when no operation is in progress; while one is (it is the first), the   *)
(* second when that is marked go; 0 when the caller makes no call now.  A  *)
(* panic has ended the process and with it the caller.                     *)
NextCallAt ==
    IF pc = "idle" THEN (IF calls # <<>> THEN 1 ELSE 0)
    ELSE IF pc # "panic" /\ Len(calls) >= 2 /\ calls[2].go THEN 2
    ELSE 0

(* The next call of the caller is the function f. *)
NextCall(f) == NextCallAt # 0 /\ calls[NextCallAt].f = f

(* calls without the call that is made next. *)
CallMade == [i \in 1..(Len(calls) - 1) |-> IF i < NextCallAt THEN calls[i] ELSE calls[i + 1]]

(* A setter: the plain assignment of its argument to the field. *)
Set(f, field, value) ==
    /\ NextCall(f)
    /\ h' = [h EXCEPT ![field] = value]
    /\ calls' = CallMade
    /\ UNCHANGED <<pc, kind, now, deadline, taskID, ret, createResp, lastResp, lastFail,
                   lastClose, nCreate, nPoll, nSleep, nReady, sleptFrom, reqVars, stepLog,
                   otherVars>>

SetWebsiteURL == Set("SetWebsiteURL", "WebsiteURL", calls[NextCallAt].v.s)
SetWebsiteKey == Set("SetWebsiteKey", "WebsiteKey", calls[NextCallAt].v.s)
SetIsInvisible == Set("SetIsInvisible", "IsInvisible", calls[NextCallAt].v.n = 1)
SetIsEnterprise == Set("SetIsEnterprise", "IsEnterprise", calls[NextCallAt].v.n = 1)
SetEnterprisePayload ==
    Set("SetEnterprisePayload", "EnterprisePayload", calls[NextCallAt].m)
SetSoftID == Set("SetSoftID", "SoftID", calls[NextCallAt].v.n)

(* The caller calls SendImage / SolveAndReturnSolution: ctx is created     *)
(* with context.WithTimeout(context.Background(), defaultTimeout).  The    *)
(* call stays at the head of calls while the operation runs.               *)
Begin(k) ==
    /\ pc = "idle"
    /\ NextCall(IF k = "image" THEN "SendImage" ELSE "SolveAndReturnSolution")
    /\ pc' = "create"
    /\ kind' = k
    /\ deadline' = now + defaultTimeout
    /\ UNCHANGED <<now, taskID, ret, h, createResp, lastResp, lastFail, lastClose,
                   nCreate, nPoll, nSleep, nReady, sleptFrom, reqVars, calls, stepLog,
                   otherVars>>

SendImageBegin == Begin("image")
SolveBegin == Begin("hcaptcha")

(* Apply with a createTask that has returned an error sent again. *)
ApplyRetryCreate(out) ==
    /\ pc' = CASE out.k = "continue" ->
                    IF pc \in {"create", "createWait"} THEN "poll" ELSE "sleep"
               [] out.k = "return" ->
                    IF pc \in {"create", "createWait"} THEN "create" ELSE "done"
               [] out.k = "panic" -> "panic"
    /\ ret' = IF out.k = "return" THEN [val |-> out.val, err |-> out.err] ELSE ret
    /\ taskID' = IF pc = "createWait" /\ out.k = "continue" THEN out.taskID ELSE taskID

(* The effect of the outcome of a createTask or getTaskResult call on the  *)
(* control state.                                                          *)
Apply(out) ==
    /\ pc' = CASE out.k = "continue" ->
                    IF pc \in {"create", "createWait"} THEN "poll" ELSE "sleep"
               [] out.k = "return" -> "done"
               [] out.k = "panic" -> "panic"
    /\ ret' = IF out.k = "return" THEN [val |-> out.val, err |-> out.err] ELSE ret
    /\ taskID' = IF pc = "createWait" /\ out.k = "continue" THEN out.taskID ELSE taskID

(* The outcome of resp.Body.Close() as far as makeRequest sees it: there   *)
(* is a body to close only when HTTPClient.Do returned a response.         *)
Closed(x, cl) == IF x \in ResponseOutcomes THEN cl ELSE "none"

(* SendImage up to the wait in HTTPClient.Do for the createTask answer     *)
(* (166, 106-117, 57-75): the request is built from the argument and       *)
(* handed to Do.                                                           *)
SendImageCreateTaskSend ==
    /\ pc = "create" /\ kind = "image"
    /\ LET body == createTaskImageBody(client, Head(calls).v.s)
       IN  /\ Marshalable(body)
           /\ createReq' = body
           /\ nCreate' = nCreate + HTTPRequests("none")
           /\ stepLog' = createTaskImageSentLog(client, Head(calls).v.s)
    /\ pc' = "createWait"
    /\ lastFail' = "none"
    /\ lastClose' = "none"
    /\ UNCHANGED <<kind, now, deadline, taskID, ret, h, createResp, lastResp, nPoll, nSleep,
                   nReady, sleptFrom, client, pollReq, calls, otherVars>>

(* HTTPClient.Do returns to the createTask call of SendImage, and what     *)
(* createTaskImage and SendImage do with its outcome (76-99, 118-138,      *)
(* 167-170).                                                               *)
SendImageCreateTaskReceive ==
    /\ pc = "createWait" /\ kind = "image"
    /\ \E d \in 0..MaxLatency, x \in RemoteOutcomes :
       \E cl \in (IF x \in AnsweredOutcomes THEN CloseOutcomes ELSE {"nil"}),
          r \in (IF x = "ok" THEN CreateResponses ELSE {NoCreateResp}) :
         LET e == Exchange(now, deadline, d, x)
         IN  /\ now' = e.at
             /\ lastFail' = e.x
             /\ lastClose' = Closed(e.x, cl)
             /\ createResp' = IF e.x = "ok" THEN r ELSE NoCreateResp
             /\ Apply(SendImageCreate(e.x, r))
             /\ stepLog' = SendImageCreateLog(client, createReq.image, e.x,
                                              Closed(e.x, cl), r)
    /\ UNCHANGED <<kind, deadline, h, lastResp, nCreate, nPoll, nSleep, nReady, sleptFrom,
                   reqVars, calls, otherVars>>

(* SolveAndReturnSolution up to the wait in HTTPClient.Do for the          *)
(* createTask answer (262-278, 57-75): the fields of h are read into the   *)
(* body; a body json.Marshal cannot encode ends makeRequest at line 60,    *)
(* and the operation at 281, with no request made.                         *)
SolveCreateTaskSend ==
    /\ pc = "create" /\ kind = "hcaptcha"
    /\ LET body == SolveBody(client, h)
           x == IF Marshalable(body) THEN "none" ELSE "marshal"
       IN  /\ createReq' = body
           /\ nCreate' = nCreate + HTTPRequests(x)
           /\ lastFail' = x
           /\ IF x = "marshal"
              THEN /\ Apply(SolveCreate(x, NoCreateResp))
                   /\ stepLog' = SolveCreateLog(client, h, x, "none", NoCreateResp)
              ELSE /\ pc' = "createWait"
                   /\ stepLog' = SolveSentLog(client, h)
                   /\ UNCHANGED <<ret, taskID>>
    /\ lastClose' = "none"
    /\ UNCHANGED <<kind, now, deadline, h, createResp, lastResp, nPoll, nSleep, nReady,
                   sleptFrom, client, pollReq, calls, otherVars>>

(* HTTPClient.Do returns to the createTask call of SolveAndReturnSolution, *)
(* and what the operation does with its outcome (76-99, 279-295).  The     *)
(* body that was sent is createReq, whatever h holds by now.               *)
SolveCreateTaskReceive ==
    /\ pc = "createWait" /\ kind = "hcaptcha"
    /\ \E d \in 0..MaxLatency, x \in RemoteOutcomes :
       \E cl \in (IF x \in AnsweredOutcomes THEN CloseOutcomes ELSE {"nil"}),
          r \in (IF x = "ok" THEN CreateResponses ELSE {NoCreateResp}) :
         LET e == Exchange(now, deadline, d, x)
         IN  /\ now' = e.at
             /\ lastFail' = e.x
             /\ lastClose' = Closed(e.x, cl)
             /\ createResp' = IF e.x = "ok" THEN r ELSE NoCreateResp
             /\ Apply(SolveCreate(e.x, r))
             /\ stepLog' = SolveCreateLog(client, createReq.task, e.x, Closed(e.x, cl), r)
    /\ UNCHANGED <<kind, deadline, h, lastResp, nCreate, nPoll, nSleep, nReady, sleptFrom,
                   reqVars, calls, otherVars>>

(* One turn of a loop up to the wait in HTTPClient.Do for the              *)
(* getTaskResult answer (174 / 299, 143-151, 57-75).                       *)
GetTaskResultSend ==
    /\ pc = "poll"
    /\ LET body == getTaskResultBody(client, taskID)
       IN  /\ Marshalable(body)
           /\ pollReq' = body
           /\ nPoll' = nPoll + HTTPRequests("none")
           /\ stepLog' = getTaskResultSentLog(client, taskID)
    /\ pc' = "pollWait"
    /\ lastFail' = "none"
    /\ lastClose' = "none"
    /\ UNCHANGED <<kind, now, deadline, taskID, ret, h, createResp, lastResp, nCreate,
                   nSleep, nReady, sleptFrom, client, createReq, calls, otherVars>>

SendImageGetTaskResultSend == kind = "image" /\ GetTaskResultSend
SolveGetTaskResultSend == kind = "hcaptcha" /\ GetTaskResultSend

(* HTTPClient.Do returns to a getTaskResult call of SendImage's loop, and  *)
(* what getTaskResult and the loop do with its outcome, up to the return   *)
(* or the call of time.Sleep (76-99, 152-157, 175-198).                    *)
SendImageGetTaskResultReceive ==
    /\ pc = "pollWait" /\ kind = "image"
    /\ \E d \in 0..MaxLatency, x \in RemoteOutcomes :
       \E cl \in (IF x \in AnsweredOutcomes THEN CloseOutcomes ELSE {"nil"}),
          r \in (IF x = "ok" THEN PollResponses("image") ELSE {NoPollResp}) :
         LET e == Exchange(now, deadline, d, x)
         IN  /\ now' = e.at
             /\ lastFail' = e.x
             /\ lastClose' = Closed(e.x, cl)
             /\ lastResp' = IF e.x = "ok" THEN r ELSE NoPollResp
             /\ nReady' = IF e.x = "ok" /\ r.status = Str("ready")
                          THEN nReady + 1 ELSE nReady
             /\ Apply(SendImagePoll(e.x, r))
             /\ stepLog' = SendImagePollLog(client, pollReq.taskId, e.x, Closed(e.x, cl), r)
    /\ UNCHANGED <<kind, deadline, h, createResp, nCreate, nPoll, nSleep, sleptFrom,
                   reqVars, calls, otherVars>>

(* HTTPClient.Do returns to a getTaskResult call of                        *)
(* SolveAndReturnSolution's loop (76-99, 152-157, 300-325); the            *)
(* assignments of 319 and 320 are made to h as it is then.                 *)
SolveGetTaskResultReceive ==
    /\ pc = "pollWait" /\ kind = "hcaptcha"
    /\ \E d \in 0..MaxLatency, x \in RemoteOutcomes :
       \E cl \in (IF x \in AnsweredOutcomes THEN CloseOutcomes ELSE {"nil"}),
          r \in (IF x = "ok" THEN PollResponses("hcaptcha") ELSE {NoPollResp}) :
         LET e == Exchange(now, deadline, d, x)
             s == SolvePoll(e.x, r, h)
         IN  /\ now' = e.at
             /\ lastFail' = e.x
             /\ lastClose' = Closed(e.x, cl)
             /\ lastResp' = IF e.x = "ok" THEN r ELSE NoPollResp
             /\ nReady' = IF e.x = "ok" /\ r.status = Str("ready")
                          THEN nReady + 1 ELSE nReady
             /\ h' = s.h
             /\ Apply(s.out)
             /\ stepLog' = SolvePollLog(client, pollReq.taskId, e.x, Closed(e.x, cl), r)
    /\ UNCHANGED <<kind, deadline, createResp, nCreate, nPoll, nSleep, sleptFrom,
                   reqVars, calls, otherVars>>

(* SendImage / SolveAndReturnSolution returns to the caller (the deferred *)
(* cancel() releases ctx): the variables of the operation are gone, the    *)
(* Client and the HCaptchaProxyless object stay as they are, and the       *)
(* caller goes on to its next call.  The clock is read from there on.      *)
ReturnToCaller ==
    /\ pc = "done"
    /\ pc' = "idle"
    /\ kind' = "none"
    /\ now' = 0
    /\ deadline' = 0
    /\ taskID' = 0
    /\ ret' = NoRet
    /\ createResp' = NoCreateResp
    /\ lastResp' = NoPollResp
    /\ lastFail' = "none"
    /\ lastClose' = "none"
    /\ nCreate' = 0
    /\ nPoll' = 0
    /\ nSleep' = 0
    /\ nReady' = 0
    /\ sleptFrom' = -1
    /\ createReq' = NoRequest
    /\ pollReq' = NoRequest
    /\ stepLog' = <<>>
    /\ calls' = Tail(calls)
    /\ UNCHANGED <<h, client, otherVars>>

(* Sleep with an interval that grows with every turn of the loop. *)
SleepBackoff ==
    /\ pc = "sleep"
    /\ pc' = "poll"
    /\ sleptFrom' = now
    /\ now' = now + checkInterval * (nSleep + 1)
    /\ nSleep' = nSleep + 1
    /\ lastResp' = NoPollResp
    /\ lastFail' = "none"
    /\ lastClose' = "none"
    /\ stepLog' = <<>>
    /\ UNCHANGED <<kind, deadline, taskID, ret, h, createResp,
                   nCreate, nPoll, nReady, reqVars, calls, otherVars>>

(* time.Sleep(checkInterval), the end of a turn of the loop: it takes no   *)
(* ctx and runs its full length.  The response and the error of the turn   *)
(* are variables of the loop's body and end with it; the step logs nothing.*)
Sleep ==
    /\ pc = "sleep"
    /\ pc' = "poll"
    /\ sleptFrom' = now
    /\ now' = now + checkInterval
    /\ nSleep' = nSleep + 1
    /\ lastResp' = NoPollResp
    /\ lastFail' = "none"
    /\ lastClose' = "none"
    /\ stepLog' = <<>>
    /\ UNCHANGED <<kind, deadline, taskID, ret, h, createResp,
                   nCreate, nPoll, nReady, reqVars, calls, otherVars>>

Next ==
    \/ SetWebsiteURL
    \/ SetWebsiteKey
    \/ SetIsInvisible
    \/ SetIsEnterprise
    \/ SetEnterprisePayload
    \/ SetSoftID
    \/ SendImageBegin
    \/ SolveBegin
    \/ SendImageCreateTaskSend
    \/ SendImageCreateTaskReceive
    \/ SolveCreateTaskSend
    \/ SolveCreateTaskReceive
    \/ SendImageGetTaskResultSend
    \/ SendImageGetTaskResultReceive
    \/ SolveGetTaskResultSend
    \/ SolveGetTaskResultReceive
    \/ Sleep
    \/ ReturnToCaller

Spec == Init /\ [][Next]_vars

(* The operation is one thread that is always scheduled and the clock      *)
(* runs: every step that can be taken is taken.                            *)
FairSpec == Spec /\ WF_vars(Next)

-----------------------------------------------------------------------------
(* Shorthands for the properties below. *)
Terminated == pc \in {"done", "panic"}
ReadyReceived == nReady > 0
RemoteFailures == {"network", "status", "decode"}
DeadlineFailures == {"deadline", "deadlinebody"}
ApiErrorReceived ==
    /\ createResp.decoded
    /\ IsFloat(createResp.errorId) /\ createResp.errorId.n # 0
    /\ IsString(createResp.errorDescription)
NoErrorReported ==
    /\ createResp.decoded
    /\ createResp.errorId \in {Absent, Num(0)}

(* C1: once a getTaskResult response with status "ready" has been          *)
(* received, the operation has returned a solution or an error from that   *)
(* response: there has been exactly one such response, it is the last      *)
(* one, and no request and no sleep follows it.                            *)
C1_ReadyEndsWithReturn ==
    ReadyReceived =>
        /\ pc = "done"
        /\ nReady = 1
        /\ IsReady(lastResp)
        /\ nPoll = nSleep + 1

(* C2: when no poll is ever answered "ready" and no poll fails on the      *)
(* remote side, the operation ends, not before its deadline, with the      *)
(* context's deadline error and no solution; and a polling operation       *)
(* always ends.                                                            *)
C2_NeverReadyEndsAtDeadline ==
    /\ []((Terminated /\ nPoll > 0 /\ nReady = 0 /\ lastFail \notin RemoteFailures) =>
            /\ pc = "done"
            /\ ret.val = ""
            /\ ret.err.leaf = "context.DeadlineExceeded"
            /\ now >= deadline)
    /\ ((pc = "poll") ~> Terminated)

C2_Witness ==
    /\ pc = "done" /\ kind = "image"
    /\ nReady = 0 /\ lastFail = "deadline"
    /\ nPoll = 31 /\ nSleep = 30
    /\ ret.err.leaf = "context.DeadlineExceeded"

(* C3: the deadline interrupts the sleep between two polls: an operation   *)
(* that is still running has not gone past its deadline.                   *)
C3_SleepHonorsDeadline ==
    (pc \in {"create", "poll", "sleep"}) => now <= deadline

(* C4 as stated: after a createTask response with errorId # 0 the          *)
(* operation returns no solution, has polled nothing, and its error        *)
(* message is the errorDescription verbatim, for both workflows.           *)
C4_ApiErrorVerbatim ==
    ApiErrorReceived =>
        /\ pc = "done"
        /\ ret.val = ""
        /\ nPoll = 0
        /\ ret.err.msg = <<createResp.errorDescription.s>>

(* C4 as amended: as above, but only SolveAndReturnSolution's message is   *)
(* the errorDescription verbatim; SendImage's is the errorDescription      *)
(* behind the prefix "failed to send image: ".                             *)
C4_ApiErrorWrappedBySendImage ==
    ApiErrorReceived =>
        /\ pc = "done"
        /\ ret.val = ""
        /\ nPoll = 0 /\ nSleep = 0
        /\ ret.err.leaf = "errors.New"
        /\ ret.err.msg = IF kind = "image"
                         THEN <<"failed to send image: ", createResp.errorDescription.s>>
                         ELSE <<createResp.errorDescription.s>>

C4_Witness ==
    /\ ApiErrorReceived
    /\ kind = "image" /\ pc = "done"
    /\ createResp.taskId = Num(7)
    /\ ret.err.msg = <<"failed to send image: ", "ERROR_KEY_DOES_NOT_EXIST">>

(* C5: a createTask response that reports no error and has no numeric      *)
(* taskId ends the operation with the response-format error and no poll.   *)
C5_MissingTaskIdNoPoll ==
    (NoErrorReported /\ ~IsFloat(createResp.taskId)) =>
        /\ pc = "done"
        /\ ret.val = ""
        /\ nPoll = 0 /\ nSleep = 0
        /\ ret.err.leaf = "errors.New"
        /\ ret.err.msg[Len(ret.err.msg)] = "failed to retrieve taskId from response"

C5_Witness ==
    /\ NoErrorReported /\ createResp.taskId = Str("7")
    /\ kind = "hcaptcha" /\ pc = "done"
    /\ ret.err.msg = <<"failed to retrieve taskId from response">>

(* C6: when the first "ready" response carries a solution with a string    *)
(* text t, SendImage returns t and no error, from that response: it is     *)
(* the only ready response, every earlier poll was followed by one sleep.  *)
C6_SendImageReturnsReadyText ==
    (kind = "image" /\ ReadyReceived
        /\ lastResp.solution.t = "obj" /\ IsString(lastResp.solution.text)) =>
        /\ pc = "done"
        /\ ret = [val |-> lastResp.solution.text.s, err |-> NilErr]
        /\ nReady = 1
        /\ nPoll = nSleep + 1

C6_Witness ==
    /\ kind = "image" /\ pc = "done"
    /\ nPoll = 2 /\ nSleep = 1 /\ nReady = 1
    /\ lastResp.solution.text = Str("AB12")
    /\ ret = [val |-> "AB12", err |-> NilErr]

(* C7: a "ready" response without a solution object or without a string    *)
(* text makes SendImage return an error; SendImage returns "" with a nil   *)
(* error only when the ready response's text is the empty string.          *)
C7_SendImageMalformedReadyIsError ==
    /\ (kind = "image" /\ ReadyReceived
          /\ (lastResp.solution.t # "obj" \/ ~IsString(lastResp.solution.text))) =>
          (pc = "done" /\ ret.val = "" /\ ret.err.leaf = "errors.New")
    /\ (kind = "image" /\ pc = "done" /\ ret = [val |-> "", err |-> NilErr]) =>
          (IsReady(lastResp) /\ lastResp.solution.t = "obj"
             /\ lastResp.solution.text = Str(""))

C7_Witness ==
    /\ kind = "image" /\ pc = "done" /\ ReadyReceived
    /\ lastResp.solution.t = "obj" /\ lastResp.solution.text = Absent
    /\ ret = [val |-> "", err |-> ErrorsNew("text not found in solution")]

(* C8: a "ready" response with a string gRecaptchaResponse whose           *)
(* userAgent or respKey is not a string makes SolveAndReturnSolution       *)
(* return an error.                                                        *)
C8_HCaptchaDecodingTotal ==
    (kind = "hcaptcha" /\ ReadyReceived
        /\ lastResp.solution.t = "obj"
        /\ IsString(lastResp.solution.gRecaptchaResponse)
        /\ (~IsString(lastResp.solution.userAgent)
              \/ ~IsString(lastResp.solution.respKey))) =>
        (pc = "done" /\ ret.err # NilErr)

(* C9: on a "ready" response whose solution has the strings                *)
(* gRecaptchaResponse g, userAgent u and respKey k,                        *)
(* SolveAndReturnSolution returns g and leaves UserAgent = u, RespKey = k. *)
C9_HCaptchaSuccessSetsFields ==
    /\ (kind = "hcaptcha" /\ ReadyReceived
          /\ lastResp.solution.t = "obj"
          /\ IsString(lastResp.solution.gRecaptchaResponse)
          /\ IsString(lastResp.solution.userAgent)
          /\ IsString(lastResp.solution.respKey)) =>
          /\ pc = "done"
          /\ ret = [val |-> lastResp.solution.gRecaptchaResponse.s, err |-> NilErr]
          /\ h.UserAgent = lastResp.solution.userAgent.s
          /\ h.RespKey = lastResp.solution.respKey.s
    /\ (kind = "hcaptcha" /\ pc = "done" /\ ret.err = NilErr) =>
          /\ ret.val = lastResp.solution.gRecaptchaResponse.s
          /\ h.UserAgent = lastResp.solution.userAgent.s
          /\ h.RespKey = lastResp.solution.respKey.s

C9_Witness ==
    /\ kind = "hcaptcha" /\ pc = "done"
    /\ lastResp.solution.gRecaptchaResponse = Str("tok")
    /\ lastResp.solution.userAgent = Str("UA")
    /\ lastResp.solution.respKey = Str("K")
    /\ ret = [val |-> "tok", err |-> NilErr]
    /\ h.UserAgent = "UA" /\ h.RespKey = "K"

(* C10: a transport failure of a getTaskResult exchange is the end of the  *)
(* operation: it has returned, with no solution and with that failure as   *)
(* its error, and nothing follows.                                         *)
C10_PollFailureEndsOperation ==
    (nPoll > 0 /\ lastFail \in RemoteFailures \cup DeadlineFailures) =>
        /\ pc = "done"
        /\ ret.val = ""
        /\ ret.err.leaf = makeRequest(lastFail).leaf
        /\ ret.err.msg = <<"failed to get task result: ", "failed to get task result: ">>
                            \o makeRequest(lastFail).msg
        /\ nPoll = nSleep + 1

C10_Witness ==
    /\ pc = "done" /\ nPoll = 3 /\ nSleep = 2
    /\ lastFail = "status"
    /\ ret.err.msg = <<"failed to get task result: ", "failed to get task result: ",
                       "non-2xx status code: 500">>

(* C11 as stated: a solve operation sends exactly one createTask request,  *)
(* before any getTaskResult request and any sleep; neither a failed        *)
(* createTask nor any number of polls makes it send another.               *)
C11_OneCreateTaskFirst ==
    /\ nCreate <= 1
    /\ (pc \in {"idle", "create"} => (nCreate = 0 /\ nPoll = 0 /\ nSleep = 0))
    /\ (pc = "createWait" => (nPoll = 0 /\ nSleep = 0))
    /\ (pc \in {"createWait", "poll", "pollWait", "sleep", "done", "panic"} => nCreate = 1)

(* C11 as amended: a solve operation sends at most one createTask request, *)
(* before any getTaskResult request and any sleep, and never another; it   *)
(* sends exactly one unless its request body cannot be marshalled, which   *)
(* ends SolveAndReturnSolution with an error before any request.           *)
C11_AtMostOneCreateTaskFirst ==
    /\ nCreate <= 1
    /\ (pc \in {"idle", "create"} => (nCreate = 0 /\ nPoll = 0 /\ nSleep = 0))
    /\ (pc = "createWait" => (nPoll = 0 /\ nSleep = 0))
    /\ (pc \in {"createWait", "poll", "pollWait", "sleep", "panic"} => nCreate = 1)
    /\ (pc = "done" => (nCreate = 0 <=> lastFail = "marshal"))
    /\ (lastFail = "marshal" =>
          /\ pc = "done" /\ kind = "hcaptcha"
          /\ ~Marshalable(createReq)
          /\ nPoll = 0 /\ nSleep = 0
          /\ ret.val = "" /\ ret.err = Errorf("failed to create task: ", makeRequest("marshal")))

C11_Witness ==
    /\ pc = "done" /\ nCreate = 1
    /\ nPoll = 4 /\ nSleep = 3
    /\ lastFail = "network"
    /\ kind = "hcaptcha" /\ createReq.task.SoftID = 12
    /\ createReq.task.EnterprisePayload = ReadmePayload

(* C13: every getTaskResult request carries the taskId of this             *)
(* operation's createTask response and the clientKey that its createTask   *)
(* request carried, which is the Client's APIKey.                          *)
C13_PollsCarryOwnTaskAndKey ==
    nPoll > 0 =>
        /\ createResp.decoded /\ IsFloat(createResp.taskId)
        /\ pollReq.endpoint = "/getTaskResult"
        /\ pollReq.taskId = createResp.taskId.n
        /\ createReq.endpoint = "/createTask"
        /\ pollReq.clientKey = createReq.clientKey
        /\ pollReq.clientKey = client.APIKey

C13_Witness ==
    /\ nPoll = 3 /\ pc = "sleep" /\ kind = "hcaptcha"
    /\ pollReq = [endpoint |-> "/getTaskResult", clientKey |-> "your_api_key_here",
                  type |-> "", taskId |-> 8, image |-> "", task |-> <<>>]
    /\ createReq.clientKey = "your_api_key_here"
    /\ createReq.task.WebsiteKey = "SITE_KEY"

(* C14: whatever the members of a decoded createTask response are, the     *)
(* operation does not end in a run-time panic on it.                       *)
C14_CreateResponseNeverAborts ==
    (createResp.decoded /\ nPoll = 0) => pc \in {"poll", "done"}

(* C16: polls and sleeps alternate, beginning with a poll right after      *)
(* createTask: k polls that are not ready and then a ready one make k + 1  *)
(* getTaskResult requests and k sleeps, each of checkInterval.             *)
C16_PollsAndSleepsAlternate ==
    /\ (pc \in {"idle", "create", "createWait"}) => (nPoll = 0 /\ nSleep = 0)
    /\ (pc = "poll") => (nPoll = nSleep)
    /\ (pc = "pollWait") => (nPoll = nSleep + 1 /\ nReady = 0)
    /\ (pc = "sleep") => (nPoll = nSleep + 1 /\ nReady = 0)
    /\ (Terminated /\ nPoll > 0) => (nPoll = nSleep + 1)
    /\ (pc = "poll" /\ nSleep > 0) => (now = sleptFrom + checkInterval)
    /\ ReadyReceived => (nReady = 1 /\ Terminated /\ nPoll = nSleep + 1)

C16_Witness ==
    /\ Terminated /\ kind = "hcaptcha"
    /\ nReady = 1 /\ nPoll = 4 /\ nSleep = 3
    /\ now = 3 * checkInterval

(* C20: a decoded getTaskResult response whose status is not the string    *)
(* "ready" (absent, a number, another string, with or without a non-zero   *)
(* errorId) does not end the operation: it goes on to sleep and poll; an   *)
(* operation that never saw "ready" ends only by a failed exchange.        *)
C20_OnlyStatusClassifies ==
    /\ (nPoll > 0 /\ lastFail = "ok" /\ lastResp.status # Str("ready")) =>
          (pc \in {"sleep", "poll"} /\ ret = NoRet)
    /\ (Terminated /\ nPoll > 0 /\ nReady = 0) =>
          (pc = "done" /\ lastFail \in RemoteFailures \cup DeadlineFailures)

C20_Witness ==
    /\ pc = "sleep" /\ kind = "image" /\ nPoll = 2
    /\ lastResp.status = Str("processing") /\ lastResp.errorId = Num(1)

(* The log of the last step as it would be with the Client c. *)
StepLogWith(c) ==
    IF pc = "createWait"
    THEN IF kind = "image" THEN createTaskImageSentLog(c, createReq.image)
         ELSE SolveSentLog(c, createReq.task)
    ELSE IF pc = "pollWait" THEN getTaskResultSentLog(c, taskID)
    ELSE IF lastFail = "none" THEN <<>>
    ELSE IF nPoll = 0
    THEN IF kind = "image"
         THEN SendImageCreateLog(c, createReq.image, lastFail, lastClose, createResp)
         ELSE SolveCreateLog(c, createReq.task, lastFail, lastClose, createResp)
    ELSE IF kind = "image"
         THEN SendImagePollLog(c, taskID, lastFail, lastClose, lastResp)
         ELSE SolvePollLog(c, taskID, lastFail, lastClose, lastResp)

(* Keys to compare runs with. *)
AllKeys == {"abc", "abd", "a<b", "abcd", "abcdefgh", "your_api_key_here",
            "YOUR_API_KEY_HERE"}

(* The string s is one of the values formatted into the entry. *)
Mentions(entry, s) ==
    \/ entry.str = s
    \/ \E i \in DOMAIN entry.err.msg : entry.err.msg[i] = s

(* C17 as stated: no log entry has the API key among its values, and the   *)
(* entries are the same under any other key of the same length, the        *)
(* remote outcomes being the same: of the request body only the size is    *)
(* logged.                                                                 *)
C17_LogIndependentOfKey ==
    /\ \A i \in DOMAIN stepLog : ~Mentions(stepLog[i], client.APIKey)
    /\ \A k \in AllKeys :
          Len(k) = Len(client.APIKey) =>
              StepLogWith([client EXCEPT !.APIKey = k]) = stepLog

(* C17 as amended: no log entry has the API key among its values, and the  *)
(* entries are the same under any other key whose JSON encoding has the    *)
(* same number of bytes, the remote outcomes being the same: the size      *)
(* logged is that of the marshalled body, in which json.Marshal writes     *)
(* the characters <, > and & of the key as six bytes each.                 *)
C17_LogIndependentOfEncodedKey ==
    /\ \A i \in DOMAIN stepLog : ~Mentions(stepLog[i], client.APIKey)
    /\ \A k \in AllKeys :
          JsonLen(Str(k)) = JsonLen(Str(client.APIKey)) =>
              StepLogWith([client EXCEPT !.APIKey = k]) = stepLog

C17_Witness ==
    /\ pc = "done" /\ kind = "image" /\ nPoll = 2
    /\ client.APIKey = "a<b" /\ taskID = 7
    /\ Len(stepLog) = 6
    /\ stepLog[2] = Entry("Sending request to %s with body: %v",
                          "https://api.anti-captcha.com/getTaskResult", 35, NilErr, <<>>)
    /\ stepLog[3].fmt = "Received response: %v"
    /\ stepLog[4] = LineE("Error closing response body: %v", CloseError)
    /\ StepLogWith([client EXCEPT !.APIKey = "abcdefgh"]) = stepLog

(* The text logged for an error made by errors.New. *)
LogText(m) ==
    CASE m = "failed to retrieve taskId from response" ->
            "Failed to retrieve taskId from response"
      [] m = "invalid solution format in response" -> "Invalid solution format in response"
      [] m = "text not found in solution" -> "Text not found in solution"
      [] OTHER -> m

(* The entry is the log of the error err: it logs the error that err       *)
(* wraps, or the API's description that err carries, or err's text.        *)
Describes(entry, err) ==
    \/ entry.err # NilErr /\ Len(err.msg) > 1 /\ entry.err = Unwrap(err)
    \/ entry.fmt = "API error creating task: %s" /\ err = ErrorsNew(entry.str)
    \/ /\ entry.err = NilErr /\ entry.str = ""
       /\ err.leaf = "errors.New" /\ Len(err.msg) = 1
       /\ entry.fmt = LogText(err.msg[1])

MakeRequestFailureFormats ==
    {"Error marshaling request body: %v", "Request failed: %v",
     "Received non-2xx status code: %d", "Error decoding response: %v"}

(* C18: when an operation has returned an error, the last log entry it     *)
(* wrote is the log of that error; and when the error is a failed          *)
(* exchange, makeRequest and createTaskImage / getTaskResult logged it     *)
(* before, each at its own level.                                          *)
C18_ErrorsLoggedBeforeReturn ==
    /\ (pc = "done" /\ ret.err # NilErr) =>
          (Len(stepLog) > 0 /\ Describes(stepLog[Len(stepLog)], ret.err))
    /\ (pc = "done" /\ lastFail # "ok") =>
          \E i, j \in DOMAIN stepLog :
              /\ i < j
              /\ stepLog[i].fmt \in MakeRequestFailureFormats
              /\ stepLog[j] = LineE(IF nPoll = 0 THEN "Failed to create task: %v"
                                    ELSE "Failed to get task result: %v",
                                    makeRequest(lastFail))

C18_Witness ==
    /\ pc = "done" /\ kind = "image"
    /\ ret.err = ErrorsNew("text not found in solution")
    /\ stepLog[Len(stepLog)] = Line("Text not found in solution")

-----------------------------------------------------------------------------
(* Several operations on one Client.  Each operation is a goroutine of     *)
(* the caller; the steps of the operations interleave, also while an       *)
(* operation waits in HTTPClient.Do for the answer to its request.  The    *)
(* clock is left out: ctx may expire during any exchange, and it has       *)
(* expired when an operation has made MaxPolls getTaskResult requests.     *)

soloVars == <<pc, kind, now, deadline, taskID, ret, h, createResp, lastResp, lastFail,
              nCreate, nPoll, nSleep, nReady, sleptFrom, reqVars, stepLog, lastClose,
              calls>>

(* What makeRequest can observe of one exchange (lines 75-96). *)
ObservedOutcomes == {"ok", "network", "deadline", "status", "decode", "deadlinebody"}

(* What the remote side does with a request: it answers with a 2xx and a   *)
(* JSON body, with a non-2xx status, with a body that is not JSON, or not  *)
(* at all.  "expired": ctx had expired and the request was not sent.       *)
WireOutcomes == {"ok", "status", "decode", "none"}

(* The exchange of an operation that waits in HTTPClient.Do: what the      *)
(* remote side has answered.                                               *)
NoWire == [x |-> "none", cr |-> NoCreateResp, pr |-> NoPollResp]

(* What makeRequest can observe when the remote side has answered w: the   *)
(* answer, or a network error or the expiry of ctx before it arrives, or   *)
(* the expiry of ctx while the body of a 2xx answer is decoded.            *)
Observed(w) ==
    IF w.x = "expired" THEN {"deadline"}
    ELSE ({w.x} \ {"none"}) \cup {"network", "deadline"}
         \cup (IF w.x = "ok" THEN {"deadlinebody"} ELSE {})

(* The solution the remote service computes for the task id. *)
TaskTexts == <<"AB12", "CD34", "EF56", "GH78">>

(* The createTask responses of the remote service when the next free task  *)
(* id is id: the task is created, the key is refused, or a body without    *)
(* a numeric errorId.                                                      *)
RemoteCreateResponses(id) ==
    {[errorId |-> Num(0), errorDescription |-> Absent, taskId |-> Num(id),
      decoded |-> TRUE],
     [errorId |-> Num(1), errorDescription |-> Str("ERROR_KEY_DOES_NOT_EXIST"),
      taskId |-> Absent, decoded |-> TRUE],
     [errorId |-> Null, errorDescription |-> Absent, taskId |-> Absent,
      decoded |-> TRUE]}

(* The solutions of the task id of kind k the remote service can send. *)
TaskSolutions(id, k) ==
    IF k = "image"
    THEN {[NoSolution EXCEPT !.t = "obj", !.text = Str(TaskTexts[id])]}
    ELSE {[NoSolution EXCEPT !.t = "obj", !.gRecaptchaResponse = Str(TaskTexts[id]),
                             !.userAgent = ua, !.respKey = Str("K")] :
          ua \in {Str("UA"), Absent}}

(* The getTaskResult responses of the remote service to a request that     *)
(* names the task id.                                                      *)
RemotePollResponses(id) ==
    IF id \notin DOMAIN remote
    THEN {[status |-> Absent, errorId |-> Num(1), solution |-> NoSolution,
           decoded |-> TRUE]}
    ELSE {[status |-> Str("processing"), errorId |-> Num(0), solution |-> NoSolution,
           decoded |-> TRUE]}
         \cup {[status |-> Str("ready"), errorId |-> Num(0), solution |-> s,
                decoded |-> TRUE] : s \in TaskSolutions(id, remote[id])}

(* OpApply with taskID kept in one place for all operations: every step   *)
(* of an operation leaves it with the task created last.                   *)
OpApplySharedTaskID(o, out, hh) ==
    [o EXCEPT !.pc = CASE out.k = "continue" ->
                            IF o.pc = "createWait" THEN "poll" ELSE "sleep"
                       [] out.k = "return" -> "done"
                       [] out.k = "panic" -> "panic",
              !.ret = IF out.k = "return" THEN [val |-> out.val, err |-> out.err] ELSE o.ret,
              !.taskID = IF o.pc = "createWait" /\ out.k = "continue" THEN out.taskID
                         ELSE Len(remote),
              !.h = hh,
              !.wire = NoWire]

(* The operation o, which waits for the answer to its request, after the  *)
(* handling of the answer with outcome out that leaves its                 *)
(* HCaptchaProxyless as hh.                                                *)
OpApply(o, out, hh) ==
    [o EXCEPT !.pc = CASE out.k = "continue" ->
                            IF o.pc = "createWait" THEN "poll" ELSE "sleep"
                       [] out.k = "return" -> "done"
                       [] out.k = "panic" -> "panic",
              !.ret = IF out.k = "return" THEN [val |-> out.val, err |-> out.err] ELSE o.ret,
              !.taskID = IF o.pc = "createWait" /\ out.k = "continue" THEN out.taskID
                         ELSE o.taskID,
              !.h = hh,
              !.wire = NoWire]

(* A panic that no function recovers ends the process: the operations in   *)
(* flight in other goroutines end with it and return nothing.              *)
ProcessAfter(f, i) ==
    IF f[i].pc # "panic" THEN f
    ELSE [j \in Ops |-> IF j # i /\ f[j].pc \in {"create", "createWait", "poll",
                                                 "pollWait", "sleep"}
                        THEN [f[j] EXCEPT !.pc = "killed"]
                        ELSE f[j]]

Crashed == \E i \in Ops : ops[i].pc = "panic"

(* A goroutine calls SendImage or SolveAndReturnSolution. *)
ConcBegin(i) ==
    /\ ~Crashed
    /\ ops[i].pc = "idle"
    /\ \E k \in {"image", "hcaptcha"} :
          ops' = [ops EXCEPT ![i].kind = k, ![i].pc = "create"]
    /\ UNCHANGED <<remote, pair, mreq, soloVars>>

(* Operation i hands its createTask request to HTTPClient.Do (line 75)    *)
(* and waits.  The remote service handles the request: it creates the      *)
(* task and answers with its id, or refuses, or answers something else,    *)
(* or nothing.                                                             *)
ConcCreateTaskSend(i) ==
    /\ ops[i].pc = "create"
    /\ \E x \in WireOutcomes :
       \E r \in (IF x = "ok" THEN RemoteCreateResponses(Len(remote) + 1)
                 ELSE {NoCreateResp}) :
         LET made == x = "ok" /\ IsFloat(r.taskId)
         IN  /\ ops' = [ops EXCEPT ![i].pc = "createWait",
                                   ![i].wire = [NoWire EXCEPT !.x = x, !.cr = r],
                                   ![i].created = IF made THEN r.taskId.n ELSE 0]
             /\ remote' = IF made THEN Append(remote, ops[i].kind) ELSE remote
    /\ UNCHANGED <<pair, mreq, soloVars>>

(* HTTPClient.Do of operation i's createTask request returns, and the      *)
(* operation handles what makeRequest observed.                            *)
ConcCreateTaskReceive(i) ==
    /\ ops[i].pc = "createWait"
    /\ \E x \in Observed(ops[i].wire) :
         LET o == ops[i]
             out == IF o.kind = "image" THEN SendImageCreate(x, o.wire.cr)
                    ELSE SolveCreate(x, o.wire.cr)
         IN  ops' = ProcessAfter([ops EXCEPT ![i] = OpApply(o, out, o.h)], i)
    /\ UNCHANGED <<remote, pair, mreq, soloVars>>

(* Operation i hands a getTaskResult request to HTTPClient.Do and waits:   *)
(* the request carries the operation's local taskID and the remote         *)
(* service answers for the task the request names.  After MaxPolls         *)
(* requests ctx has expired and Do fails without an exchange.              *)
ConcGetTaskResultSend(i) ==
    /\ ops[i].pc = "poll"
    /\ LET o == ops[i]
           req == getTaskResultBody(client, o.taskID)
       IN  \E x \in (IF o.nPoll < MaxPolls THEN WireOutcomes ELSE {"expired"}) :
           \E r \in (IF x = "ok" THEN RemotePollResponses(req.taskId) ELSE {NoPollResp}) :
             ops' = [ops EXCEPT ![i].pc = "pollWait",
                                ![i].wire = [NoWire EXCEPT !.x = x, !.pr = r],
                                ![i].pollIds = o.pollIds \cup {req.taskId},
                                ![i].nPoll = o.nPoll + 1]
    /\ UNCHANGED <<remote, pair, mreq, soloVars>>

(* HTTPClient.Do of operation i's getTaskResult request returns, and the   *)
(* loop handles what makeRequest observed.                                 *)
ConcGetTaskResultReceive(i) ==
    /\ ops[i].pc = "pollWait"
    /\ \E x \in Observed(ops[i].wire) :
         LET o == ops[i]
             s == IF o.kind = "image"
                  THEN [out |-> SendImagePoll(x, o.wire.pr), h |-> o.h]
                  ELSE SolvePoll(x, o.wire.pr, o.h)
         IN  ops' = ProcessAfter([ops EXCEPT ![i] = OpApply(o, s.out, s.h)], i)
    /\ UNCHANGED <<remote, pair, mreq, soloVars>>

(* time.Sleep(checkInterval) of operation i. *)
ConcSleep(i) ==
    /\ ops[i].pc = "sleep"
    /\ ops' = [ops EXCEPT ![i].pc = "poll"]
    /\ UNCHANGED <<remote, pair, mreq, soloVars>>

ConcNext ==
    \E i \in Ops :
        \/ ConcBegin(i)
        \/ ConcCreateTaskSend(i)
        \/ ConcCreateTaskReceive(i)
        \/ ConcGetTaskResultSend(i)
        \/ ConcGetTaskResultReceive(i)
        \/ ConcSleep(i)

(* The Client is made; the goroutines make the calls. *)
ConcInit == Constructed(<<"abc", "nil">>, <<>>)

ConcSpec == ConcInit /\ [][ConcNext]_vars

(* C15: under every interleaving the Client is as it was constructed,      *)
(* every getTaskResult request of an operation names the task the remote   *)
(* service created for it, a solution it returns is the one of that task,  *)
(* and an operation ended by the panic of another has returned nothing.    *)
C15_OwnTaskOnly ==
    /\ \E a \in ClientArgs : client = NewClient(a[1], a[2])
    /\ \A i \in Ops :
          /\ ops[i].pollIds \subseteq {ops[i].created}
          /\ (ops[i].pc = "done" /\ ops[i].ret.err = NilErr) =>
                 /\ ops[i].created \in DOMAIN remote
                 /\ ops[i].ret.val = TaskTexts[ops[i].created]
          /\ ops[i].pc = "killed" => ops[i].ret = NoRet

C15_Witness ==
    /\ ops[1].pc = "done" /\ ops[1].ret.err = NilErr /\ ops[1].created = 2
    /\ ops[2].pc = "done" /\ ops[2].ret.err = NilErr /\ ops[2].created = 1
    /\ ops[1].kind = "image" /\ ops[2].kind = "hcaptcha"
    /\ ops[1].nPoll = 2 /\ ops[2].nPoll = 2
    /\ ops[1].ret.val # ops[2].ret.val

-----------------------------------------------------------------------------
(* A SendImage and a SolveAndReturnSolution side by side: the k-th call    *)
(* of each to an endpoint gets the same outcome and the same response.     *)
(* ctx has expired when MaxPolls getTaskResult exchanges have been made.   *)

(* Solution objects that carry the same value in the member each workflow  *)
(* returns, with the two further members SolveAndReturnSolution reads.     *)
PairSolutions ==
    {[t |-> "obj", text |-> v, gRecaptchaResponse |-> v, userAgent |-> ua,
      respKey |-> rk] :
        v \in {Absent, Num(1), Str("tok")},
        ua \in {Absent, Num(1), Str("UA")},
        rk \in {Absent, Null, Str("K")}}

PairPollResponses ==
    NotReadyResponses
    \cup [status : {Str("ready")}, errorId : {Num(0)},
          solution : {NoSolution, StringSolution} \cup PairSolutions,
          decoded : {TRUE}]

(* The workflow f after a step with outcome out that made the calls cs. *)
FlowApply(f, out, cs) ==
    [f EXCEPT !.pc = CASE out.k = "continue" -> IF f.pc = "create" THEN "poll" ELSE "sleep"
                       [] out.k = "return" -> "done"
                       [] out.k = "panic" -> "panic",
              !.ret = IF out.k = "return" THEN [val |-> out.val, err |-> out.err] ELSE f.ret,
              !.taskID = IF f.pc = "create" /\ out.k = "continue" THEN out.taskID
                         ELSE f.taskID,
              !.calls = f.calls \o cs]

(* The createTask exchange of both workflows. *)
PairCreateTask ==
    /\ pair.image.pc = "create" /\ pair.hcaptcha.pc = "create"
    /\ \E x \in ObservedOutcomes :
       \E r \in (IF x = "ok" THEN CreateResponses ELSE {NoCreateResp}) :
          pair' = [pair EXCEPT
                     !.image = FlowApply(@, SendImageCreate(x, r), <<"/createTask">>),
                     !.hcaptcha = FlowApply(@, SolveCreate(x, r), <<"/createTask">>),
                     !.x = x, !.createResp = r]
    /\ UNCHANGED <<ops, remote, mreq, soloVars>>

(* The next getTaskResult exchange of the workflows that are in the loop. *)
PairGetTaskResult ==
    /\ pair.image.pc = "poll" \/ pair.hcaptcha.pc = "poll"
    /\ \E x \in (IF pair.n < MaxPolls THEN ObservedOutcomes ELSE {"deadline"}) :
       \E r \in (IF x = "ok" THEN PairPollResponses ELSE {NoPollResp}) :
          LET s == SolvePoll(x, r, pair.h)
          IN  pair' = [pair EXCEPT
                         !.image = IF @.pc = "poll"
                                   THEN FlowApply(@, SendImagePoll(x, r), <<"/getTaskResult">>)
                                   ELSE @,
                         !.hcaptcha = IF @.pc = "poll"
                                      THEN FlowApply(@, s.out, <<"/getTaskResult">>)
                                      ELSE @,
                         !.h = IF pair.hcaptcha.pc = "poll" THEN s.h ELSE @,
                         !.n = @ + 1, !.x = x, !.pollResp = r]
    /\ UNCHANGED <<ops, remote, mreq, soloVars>>

(* time.Sleep(checkInterval) of the workflows that are in the loop. *)
PairSleep ==
    /\ pair.image.pc = "sleep" \/ pair.hcaptcha.pc = "sleep"
    /\ pair' = [pair EXCEPT
                  !.image = IF @.pc = "sleep"
                            THEN [@ EXCEPT !.pc = "poll", !.calls = Append(@, "sleep")]
                            ELSE @,
                  !.hcaptcha = IF @.pc = "sleep"
                               THEN [@ EXCEPT !.pc = "poll", !.calls = Append(@, "sleep")]
                               ELSE @]
    /\ UNCHANGED <<ops, remote, mreq, soloVars>>

PairNext ==
    \/ PairCreateTask
    \/ PairGetTaskResult
    \/ PairSleep

PairInit == Constructed(<<"abc", "nil">>, <<>>)

PairSpec == PairInit /\ [][PairNext]_vars

FormatMessages ==
    {"failed to retrieve taskId from response", "invalid solution format in response",
     "text not found in solution", "gRecaptchaResponse not found in solution"}

(* How a workflow that has ended has ended: with a solution, an error of   *)
(* the API, an error of the response's format, an error of the transport,  *)
(* or a run-time panic.                                                    *)
OutcomeClass(f) ==
    IF f.pc = "panic" THEN "panic"
    ELSE IF f.ret.err = NilErr THEN "solution"
    ELSE IF f.ret.err.leaf # "errors.New" THEN "transport"
    ELSE IF f.ret.err.msg[Len(f.ret.err.msg)] \in FormatMessages THEN "format"
    ELSE "api"

FlowEnded(f) == f.pc \in {"done", "panic"}

(* C19: fed the same outcomes and responses, the two workflows end         *)
(* together, after the same endpoint calls and sleeps, and in the same     *)
(* class of outcome.                                                       *)
C19_SameCallsAndOutcomeClass ==
    /\ FlowEnded(pair.image) <=> FlowEnded(pair.hcaptcha)
    /\ FlowEnded(pair.image) =>
          /\ pair.image.calls = pair.hcaptcha.calls
          /\ OutcomeClass(pair.image) = OutcomeClass(pair.hcaptcha)

-----------------------------------------------------------------------------
(* One call of Client.makeRequest, exchange by exchange.  HTTPClient is    *)
(* the http.Client of line 42, which sets no CheckRedirect and no          *)
(* Transport: its Do (line 75) follows the redirects the remote side       *)
(* answers with, each in a new HTTP exchange, under net/http's default     *)
(* policy, and its transport sends a request again when the exchange       *)
(* breaks off in a way net/http takes to be safe to repeat.  The remote    *)
(* side answers within the exchange's latency; the ctx may expire while    *)
(* any exchange waits.                                                     *)

(* Bound of the model: how many times the transport sends a request again  *)
(* within one call of HTTPClient.Do.                                       *)
MaxResends == 2

(* The status codes HTTPClient.Do follows when they carry a Location; a    *)
(* 3xx without one is returned as it is and is the outcome "status".       *)
RedirectCodes == {301, 302, 303, 307, 308}

(* The default policy: Do gives up with an error when the redirects have   *)
(* led it through ten requests and the last is answered by a redirect      *)
(* (a request sent again by the transport counts once).                    *)
redirectLimit == 10

(* The method of the request that follows a redirect. *)
RedirectMethod(code, method) ==
    IF code \in {307, 308} \/ method \in {"GET", "HEAD"} THEN method ELSE "GET"

(* The repository names no version of Go.  The builds of net/http differ   *)
(* in the body of a request that follows a 307 or 308 after an earlier     *)
(* redirect of the same Do has dropped the body: "perHop" decides by the   *)
(* last status code alone, "dropped" never sends a dropped body again.     *)
RedirectBuilds == {"perHop", "dropped"}

(* Whether the request that follows a redirect carries the body (the body  *)
(* of line 64 is a *bytes.Buffer, which can be sent again), given whether  *)
(* the redirected request carried it.                                      *)
RedirectSendsBody(code, sendsBody, build) ==
    code \in {307, 308} /\ (build = "perHop" \/ sendsBody)

(* The bodies makeRequest is called with, and the time that has passed of  *)
(* the operation's ctx at the call.                                        *)
RequestBodies ==
    {createTaskImageBody(client, "iVBORw0KGgo="),
     SolveBody(client, NewHCaptchaProxyless),
     SolveBody(client, [NewHCaptchaProxyless EXCEPT !.EnterprisePayload = ChanPayload]),
     getTaskResultBody(client, 7)}
CallTimes == {0, defaultTimeout - 1, defaultTimeout}

(* The responses the remote side may give to the body. *)
RequestResponses(body) ==
    IF body.endpoint = "/createTask" THEN CreateResponses ELSE PollResponses("image")

(* AfterDo with a Do that failed on the network called again. *)
AfterDoRetry(x) == IF x = "network" THEN "do" ELSE "returned"

(* Where makeRequest is once HTTPClient.Do has returned with the outcome   *)
(* x (or the body was read with x): every branch of lines 76-101 returns.  *)
AfterDo(x) == "returned"

(* makeRequest is called (48-75): a body json.Marshal cannot encode ends   *)
(* it at line 60; otherwise the POST request is made and handed to         *)
(* HTTPClient.Do.                                                          *)
RequestCall ==
    /\ mreq.pc = "idle"
    /\ \E body \in RequestBodies, t \in CallTimes, build \in RedirectBuilds :
         mreq' = IF ~Marshalable(body)
                THEN [NoReq EXCEPT !.pc = "returned", !.body = body, !.t0 = t, !.t = t,
                                   !.dl = defaultTimeout, !.build = build,
                                   !.x = "marshal",
                                   !.err = makeRequest("marshal"),
                                   !.log = makeRequestLog(body, "marshal", "none",
                                                          NoCreateResp)]
                ELSE [NoReq EXCEPT !.pc = "do", !.body = body, !.t0 = t, !.t = t,
                                   !.dl = defaultTimeout, !.build = build,
                                   !.nDo = HTTPRequests("none"),
                                   !.method = "POST", !.sendsBody = TRUE,
                                   !.log = makeRequestSentLog(body)]
    /\ UNCHANGED <<ops, remote, pair, soloVars>>

(* HTTPClient.Do cannot send the request it holds, the first or the one    *)
(* that follows a redirect, under a ctx that has not expired: the          *)
(* connection cannot be made (nothing listens, the name does not resolve,  *)
(* the TLS handshake fails, the Location names a scheme the transport      *)
(* does not serve), which shows d seconds after the attempt began, or the  *)
(* ctx expires while the connection is being made.  Do returns the error   *)
(* (76-78); nothing of the request was written and no exchange began.      *)
RequestConnectFails ==
    /\ mreq.pc = "do" /\ mreq.t < mreq.dl
    /\ \E d \in 0..MaxLatency, x \in {"network", "hang"} :
         LET e == Exchange(mreq.t, mreq.dl, d, x)
         IN  mreq' = [mreq EXCEPT !.pc = AfterDo(e.x), !.t = e.at, !.x = e.x,
                                !.err = makeRequest(e.x),
                                !.log = @ \o makeRequestOutcomeLog(e.x, "none",
                                                                   NoCreateResp)]
    /\ UNCHANGED <<ops, remote, pair, soloVars>>

(* HTTPClient.Do sends the request it holds over a connection it has: an   *)
(* HTTP exchange begins.  It sends nothing under a ctx that has expired.   *)
RequestExchange ==
    /\ mreq.pc = "do" /\ mreq.t < mreq.dl
    /\ mreq' = [mreq EXCEPT !.pc = "wait", !.exchanges = @ + 1]
    /\ UNCHANGED <<ops, remote, pair, soloVars>>

(* The remote side answers the exchange with a redirect, d seconds after   *)
(* the request and before the ctx expires: Do makes the request that       *)
(* follows it, or gives up at the limit of the default policy.             *)
RequestRedirect ==
    /\ mreq.pc = "wait"
    /\ \E code \in RedirectCodes, d \in 0..MaxLatency :
         /\ mreq.t + d < mreq.dl
         /\ mreq' = IF mreq.redirects + 1 >= redirectLimit
                   THEN [mreq EXCEPT !.pc = AfterDo("redirects"), !.t = @ + d,
                                    !.x = "redirects",
                                    !.err = makeRequest("redirects"),
                                    !.log = @ \o makeRequestOutcomeLog("redirects", "none",
                                                                       NoCreateResp)]
                   ELSE [mreq EXCEPT !.pc = "do", !.t = @ + d,
                                    !.redirects = @ + 1,
                                    !.method = RedirectMethod(code, @),
                                    !.sendsBody = RedirectSendsBody(code, @, mreq.build)]
    /\ UNCHANGED <<ops, remote, pair, soloVars>>

(* The exchange that waits breaks off, d seconds after the request and     *)
(* before the ctx expires, in a way after which the transport sends the    *)
(* request again without returning from Do: over HTTP/2 the remote side    *)
(* refuses the stream or closes the connection (REFUSED_STREAM, GOAWAY),   *)
(* the body being one that can be sent again; over HTTP/1 the remote side  *)
(* closes a reused connection before it has answered a request without     *)
(* side effects (the GET that follows a 301, 302 or 303).  Which protocol  *)
(* and which connection the exchange uses is for the remote side and the   *)
(* transport to settle.                                                    *)
RequestResend ==
    /\ mreq.pc = "wait"
    /\ mreq.resends < MaxResends
    /\ \E d \in 0..MaxLatency :
         /\ mreq.t + d < mreq.dl
         /\ mreq' = [mreq EXCEPT !.t = @ + d, !.exchanges = @ + 1, !.resends = @ + 1]
    /\ UNCHANGED <<ops, remote, pair, soloVars>>

(* HTTPClient.Do returns (75-99): with the outcome of the exchange that    *)
(* waits, or at once, with no exchange, under a ctx that has expired.      *)
RequestEnd ==
    /\ mreq.pc = "wait" \/ (mreq.pc = "do" /\ mreq.t >= mreq.dl)
    /\ \E d \in 0..MaxLatency, x \in RemoteOutcomes :
       \E cl \in (IF x \in AnsweredOutcomes THEN CloseOutcomes ELSE {"nil"}),
          r \in (IF x = "ok" THEN RequestResponses(mreq.body) ELSE {NoCreateResp}) :
         LET e == Exchange(mreq.t, mreq.dl, d, x)
         IN  mreq' = [mreq EXCEPT !.pc = AfterDo(e.x), !.t = e.at, !.x = e.x,
                                !.err = makeRequest(e.x),
                                !.log = @ \o makeRequestOutcomeLog(e.x, Closed(e.x, cl), r)]
    /\ UNCHANGED <<ops, remote, pair, soloVars>>

RequestNext ==
    \/ RequestCall
    \/ RequestConnectFails
    \/ RequestExchange
    \/ RequestRedirect
    \/ RequestResend
    \/ RequestEnd

RequestInit == Constructed(<<"abc", "nil">>, <<>>)

RequestSpec == RequestInit /\ [][RequestNext]_vars

(* C12 as stated: a call of makeRequest begins at most one HTTP exchange,  *)
(* and exactly one when it succeeds; a failed exchange is reported as an   *)
(* error and not tried again.                                              *)
C12_OneExchangePerCall ==
    /\ mreq.exchanges <= 1
    /\ (mreq.pc = "returned" /\ mreq.err = NilErr) => mreq.exchanges = 1
    /\ (mreq.pc = "returned" /\ mreq.x # "ok") => mreq.err # NilErr

(* C12 as amended: a call of makeRequest calls HTTPClient.Do at most once  *)
(* and tries nothing again itself: a failure of the Do is reported as an   *)
(* error after that one call.  Within the Do one HTTP exchange is begun,   *)
(* and one more for each redirect followed (the redirects lead through     *)
(* ten requests at most) and for each request the transport sends again,   *)
(* but none for a request, the first or one that follows a redirect, that  *)
(* could not be sent: then the Do has failed on the connection or on the   *)
(* ctx.  A call that succeeds, or that reports a response, has begun the   *)
(* exchange of its last request, and exactly one exchange when it met no   *)
(* redirect and no request sent again.  No exchange is begun for a body    *)
(* that cannot be marshalled or under a ctx that has expired.              *)
C12_OneDoPerCall ==
    /\ mreq.nDo <= 1
    /\ mreq.redirects + 1 <= redirectLimit
    /\ mreq.pc = "do" => mreq.exchanges = mreq.redirects + mreq.resends
    /\ mreq.pc = "wait" => mreq.exchanges = mreq.redirects + mreq.resends + 1
    /\ mreq.pc = "returned" =>
          /\ mreq.exchanges \in {mreq.redirects + mreq.resends,
                                 mreq.redirects + mreq.resends + 1}
          /\ mreq.exchanges = mreq.redirects + mreq.resends =>
                mreq.x \in {"marshal", "deadline", "network"}
          /\ (mreq.x = "marshal" \/ mreq.t0 >= mreq.dl) =>
                (mreq.exchanges = 0 /\ mreq.redirects = 0 /\ mreq.resends = 0)
          /\ mreq.exchanges = 0 => mreq.x \in {"marshal", "deadline", "network"}
          /\ mreq.x \in {"ok", "status", "decode", "deadlinebody", "redirects"} =>
                mreq.exchanges = mreq.redirects + mreq.resends + 1
          /\ mreq.x = "marshal" <=> mreq.nDo = 0
          /\ mreq.err = NilErr <=> mreq.x = "ok"
          /\ mreq.err = makeRequest(mreq.x)
          /\ (mreq.x = "ok" /\ mreq.redirects = 0 /\ mreq.resends = 0) =>
                mreq.exchanges = 1
          /\ mreq.x = "redirects" => mreq.redirects + 1 = redirectLimit

C12_Witness ==
    /\ mreq.pc = "returned" /\ mreq.err = NilErr
    /\ mreq.body.endpoint = "/createTask"
    /\ mreq.exchanges = 3 /\ mreq.redirects = 1 /\ mreq.resends = 1
    /\ mreq.method = "GET" /\ ~mreq.sendsBody
    /\ Len(mreq.log) = 2

(* The operation has returned a solution. *)
SolutionReturned == pc = "done" /\ ret.err = NilErr

(* C21 (inputs): no step of SolveAndReturnSolution changes a field it      *)
(* reads into the request.                                                 *)
C21_InputsUnchanged ==
    [][ (pc # "idle" /\ kind = "hcaptcha" /\ calls' = calls) =>
            \A f \in InputFields : h'[f] = h[f] ]_vars

(* C21: a step of SolveAndReturnSolution that does not return a solution   *)
(* leaves the HCaptchaProxyless object as it was, UserAgent and RespKey    *)
(* included; and no step changes its input fields.                         *)
C21_ObjectChangedOnlyOnSuccess ==
    [][ (pc # "idle" /\ kind = "hcaptcha" /\ calls' = calls) =>
            /\ ~SolutionReturned' => h' = h
            /\ \A f \in InputFields : h'[f] = h[f] ]_vars

(* C22: the deadline set when the operation begins is not changed by any   *)
(* later step of it; no sleep begins at or after it; a getTaskResult       *)
(* attempt made at or after it is one request, which fails on the expired  *)
(* ctx, and with it the operation returns, with no solution and without a  *)
(* further sleep; an operation that has returned makes no further step.    *)
(* (The steps of the operation are those that leave the caller's calls as  *)
(* they are.)                                                              *)
C22_OneDeadlineOneLatePoll ==
    [][ calls' = calls =>
          /\ pc # "idle" => deadline' = deadline
          /\ pc = "sleep" => now < deadline
          /\ (pc = "poll" /\ now >= deadline) =>
                /\ nPoll' = nPoll + 1
                /\ pc' = "pollWait"
                /\ nSleep' = nSleep
                /\ now' = now
          /\ (pc = "pollWait" /\ now >= deadline) =>
                /\ nPoll' = nPoll
                /\ lastFail' = "deadline"
                /\ pc' = "done"
                /\ ret'.val = "" /\ ret'.err # NilErr
                /\ nSleep' = nSleep
                /\ now' = now
          /\ pc \in {"create", "createWait"} => now < deadline
          /\ pc \in {"done", "panic"} => pc' = pc
      ]_vars

C22_Witness ==
    /\ pc = "done"
    /\ nPoll >= 2
    /\ lastFail = "deadline"
    /\ sleptFrom < deadline
    /\ now = sleptFrom + checkInterval
    /\ now > deadline
    /\ ret.err = Errorf("failed to get task result: ",
                        Errorf("failed to get task result: ", makeRequest("deadline")))
====
